---- MODULE Spec2Model ----
(***************************************************************************)
(* Rectangle-packing suggestion engine of lasercutReuse                    *)
(* (src/src/utils/imageProcessor.ts, suggestRectanglesFromMask) together   *)
(* with the caller that runs it, handleAutoFillRectangles of               *)
(* src/src/hooks/useShapeTools.ts, and the abort flag that caller shares   *)
(* with handleStopAutoFill and resetShapeState.                            *)
(*                                                                         *)
(* Numbers.  Millimetre quantities are integers counting 1/MmUnit mm, so   *)
(* that toFixed(4) and toFixed(3) are real roundings.  Pixel-per-mm ratios *)
(* and millimetre results are exact rationals [num, den]; Math.round is    *)
(* floor(v + 1/2).  An optional field of the options object is <<>> when   *)
(* it is undefined and <<v>> when it is set.                               *)
(***************************************************************************)
EXTENDS Integers, Naturals, Sequences, FiniteSets, TLC

\* ------------------------------------------------------------------ bounds
MaxMaskW == 4
MaxMaskH == 3

\* the largest whole millimetre value handed to buildDescendingRange directly
MaxRangeMm == 3

\* the longest list of suggestions handed to the outline merger
MaxRects == 3

\* ------------------------------------------------------- numeric helpers
MmUnit == 100000

Mm(n) == n * MmUnit

Tenths(n) == n * (MmUnit \div 10)

Max2(a, b) == IF a >= b THEN a ELSE b

Min2(a, b) == IF a <= b THEN a ELSE b

Nullish(field, dflt) == IF field = <<>> THEN dflt ELSE field[1]

\* Number(v.toFixed(4)) and v.toFixed(3) on a non-negative value
ToFixed4(v) == ((v + (MmUnit \div 20000)) \div (MmUnit \div 10000)) * (MmUnit \div 10000)

ToFixed3(v) == ((v + (MmUnit \div 2000)) \div (MmUnit \div 1000)) * (MmUnit \div 1000)

\* Math.round(v * r) for v >= 0 and a positive ratio r = num/den
RoundMul(v, r) == (2 * v * r.num + r.den) \div (2 * r.den)

\* Math.ceil(a / b) for a >= 0, b > 0
CeilDiv(a, b) == (a + b - 1) \div b

\* the product a * b as <<high, low>> in base 10^6, exact beyond 32 bits
Product(a, b) ==
  LET aH == a \div 1000
      aL == a % 1000
      bH == b \div 1000
      bL == b % 1000
      p2 == aH * bH
      p1 == aH * bL + aL * bH
      p0 == aL * bL
      lo == (p1 % 1000) * 1000 + p0
      hi == p2 + (p1 \div 1000)
  IN  <<hi + (lo \div 1000000), lo % 1000000>>

\* mutant: the comparator is turned round, smallest area first
AreaGeq_Ascending(a, b) ==
  LET pa == Product(a.widthMm, a.heightMm)
      pb == Product(b.widthMm, b.heightMm)
  IN  \/ pa[1] < pb[1]
      \/ pa[1] = pb[1] /\ pa[2] <= pb[2]

\* a.widthMm * a.heightMm >= b.widthMm * b.heightMm
AreaGeq(a, b) ==
  LET pa == Product(a.widthMm, a.heightMm)
      pb == Product(b.widthMm, b.heightMm)
  IN  \/ pa[1] > pb[1]
      \/ pa[1] = pb[1] /\ pa[2] >= pb[2]

\* ------------------------------------------------- SizeCandidateGenerator
RECURSIVE DescendingLoop(_, _, _)
DescendingLoop(current, min, step) ==
  IF current >= min
    THEN <<ToFixed4(current)>> \o DescendingLoop(current - step, min, step)
    ELSE <<>>

SeqRange(s) == {s[i] : i \in 1..Len(s)}

SetMax(S) == CHOOSE m \in S : \A o \in S : o <= m

\* Array.from(new Set(values)).sort((a, b) => b - a)
RECURSIVE SortedDescending(_)
SortedDescending(S) ==
  IF S = {} THEN <<>>
  ELSE <<SetMax(S)>> \o SortedDescending(S \ {SetMax(S)})

\* mutant: the min endpoint is not added when the steps miss it
buildDescendingRange_NoEndpoint(max, min, step) ==
  IF step <= 0
    THEN SortedDescending({max, min})
    ELSE SortedDescending(SeqRange(DescendingLoop(max, min, step)))

buildDescendingRange(max, min, step) ==
  IF step <= 0
    THEN SortedDescending({max, min})
    ELSE LET loop   == DescendingLoop(max, min, step)
             values == IF loop = <<>> \/ loop[Len(loop)] # ToFixed4(min)
                         THEN Append(loop, ToFixed4(min))
                         ELSE loop
         IN  SortedDescending(SeqRange(values))

PairKey(p) == <<ToFixed3(p.widthMm), ToFixed3(p.heightMm)>>

\* mutant: the pair is pushed whether or not its key was seen
addPair_NoDedupe(pairs, w, h) == Append(pairs, [widthMm |-> w, heightMm |-> h])

addPair(pairs, w, h) ==
  IF \E i \in 1..Len(pairs) : PairKey(pairs[i]) = PairKey([widthMm |-> w, heightMm |-> h])
    THEN pairs
    ELSE Append(pairs, [widthMm |-> w, heightMm |-> h])

\* mutant: landscape and portrait are taken for each other
PairsFor_Swapped(pairs, orientation, w, h) ==
  IF orientation = "landscape" THEN addPair(pairs, h, w)
  ELSE IF orientation = "portrait" THEN addPair(pairs, w, h)
  ELSE IF w # h THEN addPair(addPair(pairs, w, h), h, w)
  ELSE addPair(pairs, w, h)

PairsFor(pairs, orientation, w, h) ==
  IF orientation = "landscape" THEN addPair(pairs, w, h)
  ELSE IF orientation = "portrait" THEN addPair(pairs, h, w)
  ELSE IF w # h THEN addPair(addPair(pairs, w, h), h, w)
  ELSE addPair(pairs, w, h)

RECURSIVE ForEachHeight(_, _, _, _, _)
ForEachHeight(pairs, orientation, w, hs, j) ==
  IF j > Len(hs) THEN pairs
  ELSE ForEachHeight(PairsFor(pairs, orientation, w, hs[j]), orientation, w, hs, j + 1)

RECURSIVE ForEachWidth(_, _, _, _, _)
ForEachWidth(pairs, orientation, ws, hs, i) ==
  IF i > Len(ws) THEN pairs
  ELSE ForEachWidth(ForEachHeight(pairs, orientation, ws[i], hs, 1), orientation, ws, hs, i + 1)

\* stable insertion of p behind every entry whose area is >= its own
InsertByArea(sorted, p) ==
  LET k == Cardinality({i \in 1..Len(sorted) : AreaGeq(sorted[i], p)})
  IN  SubSeq(sorted, 1, k) \o <<p>> \o SubSeq(sorted, k + 1, Len(sorted))

\* sizePairs.sort((a, b) => b.widthMm * b.heightMm - a.widthMm * a.heightMm)
RECURSIVE SortByArea(_, _, _)
SortByArea(sorted, pairs, i) ==
  IF i > Len(pairs) THEN sorted
  ELSE SortByArea(InsertByArea(sorted, pairs[i]), pairs, i + 1)

\* ------------------------------------------------------------ the state
VARIABLES
  mask, maskWidth, maskHeight, widthMm, heightMm, options,   \* the arguments
  pc,                \* position of the async function
  x, y,              \* loop variables, in pixels
  available, original, sizePairs,
  suggestions,       \* the RectangleSuggestion[] being built (millimetres)
  processedRows,
  abortFlag,         \* autoFillAbortRef.current, read by shouldAbort
  pollCount,         \* number of shouldAbort() calls of this invocation
  progressCalls,     \* number of onProgress() calls of this invocation
  delivered,         \* <<the payload of the last of them>>, <<>> before the first
  anchorsExamined,   \* anchors that reached line 610 in this invocation
  abortSeen,         \* some poll of this invocation returned true
  callNo, firstResult,
  hookPc,            \* position of handleAutoFillRectangles
  autoFilling,       \* the autoFilling state of the hook
  shapeMessage,      \* the message the hook shows
  stopCalled,        \* handleStopAutoFill ran during this run of the hook
  autoFillProgress,  \* the autoFillProgress state of the hook, <<>> for null
  svgShapes,         \* the auto-fill rectangles of the SVG document
  svgUpdates,        \* number of onSvgUpdate() calls of the hook
  rangeArgs,         \* <<max, min, step>> of a direct buildDescendingRange call
  rangeResult,       \* <<the array it returned>>, <<>> before it has returned
  mergePc,           \* position of the boundary-box hook after its call returned
  returned,          \* the suggestions that call returned (millimetres)
  shapeGap,          \* actualShapeState.gap
  shapeCornerRadius, \* actualShapeState.cornerRadius
  realtimeRects,     \* the rectangles added to the document during the call
  rects,             \* the suggestions aligned to whole pixels
  clusterI,          \* the loop variable i of the grouping loop, from 1
  processed,         \* indices of rects that belong to a group
  currentRects,      \* the group being grown, as indices of rects
  clusters,          \* the groups whose path has been pushed
  mergedPaths,       \* the path of each of them, as its vertices
  svgPaths           \* the auto-fill path elements of the SVG document

vars == <<mask, maskWidth, maskHeight, widthMm, heightMm, options, pc, x, y,
          available, original, sizePairs, suggestions, processedRows,
          abortFlag, pollCount, progressCalls, delivered, anchorsExamined,
          abortSeen, callNo, firstResult, hookPc, autoFilling, shapeMessage, stopCalled,
          autoFillProgress, svgShapes, svgUpdates, rangeArgs, rangeResult,
          mergePc, returned, shapeGap, shapeCornerRadius, realtimeRects, rects,
          clusterI, processed, currentRects, clusters, mergedPaths, svgPaths>>

range == <<rangeArgs, rangeResult>>

grouping == <<rects, clusterI, processed, currentRects, clusters, mergedPaths>>

merger == <<mergePc, returned, shapeGap, shapeCornerRadius, realtimeRects,
            grouping, svgPaths>>

svg == <<svgShapes, svgUpdates>>

hook == <<hookPc, autoFilling, shapeMessage, stopCalled, svg>>

inputs == <<mask, maskWidth, maskHeight, widthMm, heightMm, options>>

\* ------------------------------------------- locals of the async function
pxPerMmX == [num |-> maskWidth, den |-> widthMm]

pxPerMmY == [num |-> maskHeight, den |-> heightMm]

maxWidthMm == Max2(options.maxWidthMm, Mm(1))

maxHeightMm == Max2(options.maxHeightMm, Mm(1))

minWidthMm == Max2(Nullish(options.minWidthMm, Mm(20)), Mm(1))

minHeightMm == Max2(Nullish(options.minHeightMm, Mm(20)), Mm(1))

\* mutant: the step is taken as given, without the floor of 0.2 mm
stepMm_Unclamped == Nullish(options.stepMm, Mm(10))

stepMm == Max2(Nullish(options.stepMm, Mm(10)), Tenths(2))

gapMm == Max2(Nullish(options.gapMm, Mm(5)), 0)

\* Math.min(Math.max(t, 0), 1) on the rational t = num/den
coverageThreshold ==
  LET t == Nullish(options.coverageThreshold, [num |-> 95, den |-> 100])
  IN  IF t.num < 0 THEN [num |-> 0, den |-> 1]
      ELSE IF t.num > t.den THEN [num |-> 1, den |-> 1]
      ELSE t

orientation == Nullish(options.orientation, "both")

\* mutant: the cap lets one suggestion more through
maxShapes_PlusOne == Nullish(options.maxShapes, 200) + 1

maxShapes == Nullish(options.maxShapes, 200)

\* the row options are whole numbers here, which Math.round leaves alone
progressIntervalRows == Max2(1, Nullish(options.progressIntervalRows, 5))

yieldAfterRows == Max2(0, Nullish(options.yieldAfterRows, 20))

onProgress == options.onProgress

shouldAbort == options.shouldAbort

widthCandidates == buildDescendingRange(maxWidthMm, minWidthMm, stepMm)

heightCandidates == buildDescendingRange(maxHeightMm, minHeightMm, stepMm)

BuildSizePairs ==
  SortByArea(<<>>, ForEachWidth(<<>>, orientation, widthCandidates, heightCandidates, 1), 1)

gapPxX == RoundMul(gapMm, pxPerMmX)

gapPxY == RoundMul(gapMm, pxPerMmY)

stepPxX == Max2(1, RoundMul(stepMm, pxPerMmX))

stepPxY == Max2(1, RoundMul(stepMm, pxPerMmY))

\* mutant: the division is rounded down
totalRows_Floor == Max2(1, maskHeight \div stepPxY)

totalRows == Max2(1, CeilDiv(maskHeight, stepPxY))

\* the binarization threshold of line 517
Threshold == 200

\* mutant: the threshold test admits the threshold value itself
IsWhite_Geq(value) == IF value >= Threshold THEN 1 ELSE 0

IsWhite(value) == IF value > Threshold THEN 1 ELSE 0

\* mutant: the grid of the call before is used again when there is one
FreshGrid_Reused ==
  IF available # <<>> THEN available
  ELSE [i \in 0..(maskWidth * maskHeight - 1) |->
          IF i < Len(mask) THEN IsWhite(mask[i + 1]) ELSE 0]

\* lines 514-520: new zero-filled arrays of maskWidth * maskHeight cells, the
\* first mask.length of them set from the thresholded mask
FreshGrid ==
  [i \in 0..(maskWidth * maskHeight - 1) |->
     IF i < Len(mask) THEN IsWhite(mask[i + 1]) ELSE 0]

\* grid[i]; reading past the end of a typed array gives undefined, which is falsy
At(grid, i) == IF i \in DOMAIN grid THEN grid[i] ELSE 0

\* the caller's array after the scan wrote grid: available is a separate
\* buffer (line 514), so a write to it never reaches mask
\* mutant: available aliases the caller's array, so marking writes through
CallerMask_Alias(m, grid) ==
  [i \in DOMAIN m |-> IF At(grid, i - 1) = 0 THEN 0 ELSE m[i]]

CallerMask(m, grid) == m

\* the gap-expanded box of a rectangle, clamped to the grid (lines 554-557)
ExpandedCells(ax, ay, w, h) ==
  LET startX == Max2(0, ax - gapPxX)
      startY == Max2(0, ay - gapPxY)
      endX   == Min2(maskWidth, ax + w + gapPxX)
      endY   == Min2(maskHeight, ay + h + gapPxY)
  IN  {yy * maskWidth + xx : xx \in startX..(endX - 1), yy \in startY..(endY - 1)}

\* mutant: the exact rectangle is looked at, without its clearance
isAreaUnused_NoGap(grid, ax, ay, w, h) ==
  \A i \in {yy * maskWidth + xx : xx \in ax..(ax + w - 1), yy \in ay..(ay + h - 1)} :
    At(grid, i) # 0

\* mutant: only the anchor cell is looked at
isAreaUnused_AnchorOnly(grid, ax, ay, w, h) == At(grid, ay * maskWidth + ax) # 0

isAreaUnused(grid, ax, ay, w, h) ==
  \A i \in ExpandedCells(ax, ay, w, h) : At(grid, i) # 0

ExactCells(ax, ay, w, h) ==
  {yy * maskWidth + xx : xx \in ax..(ax + w - 1), yy \in ay..(ay + h - 1)}

\* white and total of whiteCoverageRatio, kept as the pair it divides
whiteCoverageRatio(grid, ax, ay, w, h) ==
  [white |-> Cardinality({i \in ExactCells(ax, ay, w, h) : At(grid, i) # 0}),
   total |-> Cardinality(ExactCells(ax, ay, w, h))]

\* coverage < coverageThreshold, with coverage = 0 when total = 0
CoverageBelow(c, t) ==
  IF c.total = 0 THEN 0 < t.num
  ELSE c.white * t.den < t.num * c.total

\* mutant: only the exact rectangle is marked, without its clearance
markUsed_NoGap(grid, ax, ay, w, h) ==
  [i \in DOMAIN grid |->
     IF i \in {yy * maskWidth + xx : xx \in ax..(ax + w - 1), yy \in ay..(ay + h - 1)}
       THEN 0 ELSE grid[i]]

\* mutant: the cells of the region are flipped instead of cleared
markUsed_Toggle(grid, ax, ay, w, h) ==
  [i \in DOMAIN grid |->
     IF i \in {yy * maskWidth + xx :
                 xx \in Max2(0, ax - gapPxX)..(Min2(maskWidth, ax + w + gapPxX) - 1),
                 yy \in Max2(0, ay - gapPxY)..(Min2(maskHeight, ay + h + gapPxY) - 1)}
       THEN 1 - grid[i] ELSE grid[i]]

markUsed(grid, ax, ay, w, h) ==
  LET cells == ExpandedCells(ax, ay, w, h)
  IN  [i \in DOMAIN grid |-> IF i \in cells THEN 0 ELSE grid[i]]

toMm(valuePx, perMm) == [num |-> valuePx * perMm.den, den |-> perMm.num]

widthPxOf(pair) == Max2(1, RoundMul(pair.widthMm, pxPerMmX))

heightPxOf(pair) == Max2(1, RoundMul(pair.heightMm, pxPerMmY))

\* mutant: the bounds test lets a rectangle stick out by one pixel
Fits_OffByOne(ax, ay, pair) ==
  /\ ~(widthPxOf(pair) < 1 \/ heightPxOf(pair) < 1)
  /\ ~(ax + widthPxOf(pair) > maskWidth + 1 \/ ay + heightPxOf(pair) > maskHeight + 1)

\* the tests of lines 615-616 for one candidate at anchor (ax, ay)
Fits(ax, ay, pair) ==
  /\ ~(widthPxOf(pair) < 1 \/ heightPxOf(pair) < 1)
  /\ ~(ax + widthPxOf(pair) > maskWidth \/ ay + heightPxOf(pair) > maskHeight)

\* mutant: a candidate is taken as soon as it fits the grid
Accepts_FitsOnly(ax, ay, pair) == Fits(ax, ay, pair)

\* the tests of lines 615-621
Accepts(ax, ay, pair) ==
  /\ Fits(ax, ay, pair)
  /\ isAreaUnused(available, ax, ay, widthPxOf(pair), heightPxOf(pair))
  /\ ~CoverageBelow(whiteCoverageRatio(original, ax, ay, widthPxOf(pair), heightPxOf(pair)),
                    coverageThreshold)

\* mutant: the loop goes on after an accepted candidate and keeps the last
FirstAccepted_Last(ax, ay) ==
  LET ok == {k \in 1..Len(sizePairs) : Accepts(ax, ay, sizePairs[k])}
  IN  IF ok = {} THEN 0 ELSE CHOOSE k \in ok : \A o \in ok : k >= o

\* mutant: only the largest candidate is tried
FirstAccepted_OnlyLargest(ax, ay) ==
  IF Accepts(ax, ay, sizePairs[1]) THEN 1 ELSE 0

\* index of the first candidate the for-of loop accepts, 0 when none
FirstAccepted(ax, ay) ==
  LET ok == {k \in 1..Len(sizePairs) : Accepts(ax, ay, sizePairs[k])}
  IN  IF ok = {} THEN 0 ELSE CHOOSE k \in ok : \A o \in ok : k <= o

Suggestion(ax, ay, pair) ==
  [xMm      |-> toMm(ax, pxPerMmX),
   yMm      |-> toMm(ay, pxPerMmY),
   widthMm  |-> toMm(widthPxOf(pair), pxPerMmX),
   heightMm |-> toMm(heightPxOf(pair), pxPerMmY)]

\* suggestions.push(...) of line 623
\* mutant: the new suggestion is put in front
Push_Front(list, item) == <<item>> \o list

Push(list, item) == Append(list, item)

\* the rectangles handed to options.onRectangleAdded while list was built:
\* lines 623-631 push the suggestion, mark its region and leave the candidate
\* loop; they call nothing, and RectanglePackingOptions has no such member
RectanglesAdded(list) == <<>>

\* the tests of the two for loops, lines 599 and 605
OuterLoopTest == y < maskHeight /\ Len(suggestions) < maxShapes

\* mutant: the inner loop forgets the cap
InnerLoopTest_NoCap == x < maskWidth

InnerLoopTest == x < maskWidth /\ Len(suggestions) < maxShapes

\* where a poll that returned true leaves the scan: the break of line 601 and
\* of line 642 leave the outer loop, the break of line 607 only the inner one
RowBreak == "finish"

ColumnBreak == "awaitRow"

\* mutant: the scan yields after every row
YieldDue_Always == TRUE

\* the test of line 637
YieldDue == yieldAfterRows > 0 /\ processedRows % yieldAfterRows = 0

\* where the timer of line 638 resumes the scan
\* mutant: the timer callback never resolves the promise
AfterYield_Never == "yield"

AfterYield == "rowPoll"

\* mutant: the poll after the yield goes on to the next row test
RowEndBreak_Continue == "rowHead"

RowEndBreak == "finish"

Bump(flag) == IF flag THEN 1 ELSE 0

\* mutant: the interval is ignored, every row is reported
Reports_EveryRow(force) == onProgress # "none"

\* reportProgress: does this call reach onProgress(payload)?
\* mutant: the force argument is ignored
Reports_Unforced(force) ==
  /\ onProgress # "none"
  /\ processedRows % progressIntervalRows = 0

Reports(force) ==
  /\ onProgress # "none"
  /\ (force \/ processedRows % progressIntervalRows = 0)

\* the RectanglePackingProgress of lines 535-541
payload ==
  [progress       |-> IF processedRows >= totalRows
                        THEN [num |-> 1, den |-> 1]
                        ELSE [num |-> processedRows, den |-> totalRows],
   processedRows  |-> processedRows,
   totalRows      |-> totalRows,
   suggestions    |-> Len(suggestions),
   lastSuggestion |-> IF Len(suggestions) > 0
                        THEN <<suggestions[Len(suggestions)]>> ELSE <<>>]

\* line 542: onProgress is called with the payload when reportProgress(force)
\* gets that far
Deliver(reached, force) ==
  /\ delivered' = IF reached /\ Reports(force) THEN <<payload'>> ELSE delivered
  /\ autoFillProgress' = IF reached /\ Reports(force) THEN <<payload'>>
                          ELSE autoFillProgress

\* onProgress throws, or returns a promise that rejects
ProgressFails == onProgress \in {"throws", "rejects"}

\* onProgress returns a promise that settles in a later task
ProgressPending == onProgress \in {"async", "rejects"}

\* the catch of lines 546-548: the error is logged and reportProgress
\* returns normally, so the caller's await goes on to next
\* mutant: the error leaves reportProgress and rejects the call
Caught_Rethrow(next) == "failed"

Caught(next) == next

\* where the scan is after a call of reportProgress(force)
AfterReport(force, next) ==
  IF Reports(force) /\ ProgressFails THEN Caught(next) ELSE next

\* shouldAbort && shouldAbort()
Polled == shouldAbort # "none"

\* the number of candidates the for-of loop of line 612 tries at an anchor
Attempts(ax, ay) ==
  IF At(available, ay * maskWidth + ax) = 0 THEN 0
  ELSE IF FirstAccepted(ax, ay) = 0 THEN Len(sizePairs)
  ELSE FirstAccepted(ax, ay)

\* the polls made while one anchor is handled: the one of line 606
\* mutant: the predicate is polled again before every candidate
PollsAtAnchor_PerCandidate(ax, ay) == Bump(Polled) * (1 + Attempts(ax, ay))

PollsAtAnchor(ax, ay) == Bump(Polled)

\* mutant: the predicate is never consulted
PollTrue_Never == FALSE

PollTrue == Polled /\ abortFlag

\* mutant: the length of the mask is not compared with the dimensions
ValidInput_NoLength == ~(widthMm <= 0 \/ heightMm <= 0)

ValidInput ==
  /\ Len(mask) = maskWidth * maskHeight
  /\ ~(widthMm <= 0 \/ heightMm <= 0)

\* ------------------------------------------------------------- inputs
\* mask values: the largest occupied one and the smallest free one
Occupied == Threshold

Free == Threshold + 1

Cells(w, h) == 1..(w * h)

\* masks that are free except for one occupied axis-aligned block
BlockMask(w, h, x0, x1, y0, y1) ==
  [i \in Cells(w, h) |->
     IF /\ ((i - 1) % w) \in x0..x1
        /\ ((i - 1) \div w) \in y0..y1
       THEN Occupied ELSE Free]

\* masks with at most one occupied cell
FewMasks(w, h) ==
  {[i \in Cells(w, h) |-> IF i = c THEN Occupied ELSE Free] : c \in 0..(w * h)}

Masks(w, h) ==
  {[i \in Cells(w, h) |-> Free]} \cup
  {BlockMask(w, h, x0, x1, y0, y1) :
     x0 \in 0..(w - 1), x1 \in 0..(w - 1), y0 \in 0..(h - 1), y1 \in 0..(h - 1)}

\* arrays whose length is not maskWidth * maskHeight
WrongLengthMasks(w, h) ==
  {[i \in 1..n |-> Free] : n \in {w * h - 1, w * h + 1}}

BaseOptions ==
  [maxWidthMm |-> Mm(2), maxHeightMm |-> Mm(2),
   minWidthMm |-> <<Mm(1)>>, minHeightMm |-> <<Mm(1)>>,
   stepMm |-> <<Mm(1)>>, gapMm |-> <<0>>,
   coverageThreshold |-> <<[num |-> 9, den |-> 10]>>,
   orientation |-> <<"both">>, maxShapes |-> <<>>,
   progressIntervalRows |-> <<1>>, yieldAfterRows |-> <<1>>,
   onProgress |-> "sync", shouldAbort |-> "flag", onRectangleAdded |-> "none"]

SizeVariants ==
  {[BaseOptions EXCEPT !.maxWidthMm = Mm(3), !.maxHeightMm = Mm(1)],
   [BaseOptions EXCEPT !.minWidthMm = <<Mm(2)>>, !.minHeightMm = <<Mm(2)>>],
   [BaseOptions EXCEPT !.minWidthMm = <<>>, !.minHeightMm = <<>>],
   [BaseOptions EXCEPT !.maxWidthMm = Mm(2) + 4, !.minHeightMm = <<Tenths(5)>>],
   [BaseOptions EXCEPT !.maxWidthMm = Mm(1) + 40, !.orientation = <<"landscape">>],
   [BaseOptions EXCEPT !.maxWidthMm = Mm(1), !.minWidthMm = <<Mm(2)>>],
   [BaseOptions EXCEPT !.maxWidthMm = Mm(1) + Tenths(4), !.maxHeightMm = Mm(1) + Tenths(2),
                       !.stepMm = <<0>>]}

OtherVariants ==
  {[BaseOptions EXCEPT !.stepMm = v] : v \in {<<Mm(2)>>, <<>>}} \cup
  {[BaseOptions EXCEPT !.gapMm = v] :
     v \in {<<Mm(1)>>, <<Tenths(5)>>, <<Tenths(4)>>, <<0 - Mm(1)>>, <<>>}} \cup
  {[BaseOptions EXCEPT !.coverageThreshold = v] :
     v \in {<<[num |-> 1, den |-> 2]>>, <<[num |-> 0, den |-> 1]>>,
            <<[num |-> 3, den |-> 2]>>, <<>>}} \cup
  {[BaseOptions EXCEPT !.orientation = v] : v \in {<<"landscape">>, <<"portrait">>, <<>>}} \cup
  {[BaseOptions EXCEPT !.maxShapes = v] : v \in {<<0>>, <<1>>, <<2>>}} \cup
  {[BaseOptions EXCEPT !.progressIntervalRows = v] : v \in {<<2>>, <<>>}} \cup
  {[BaseOptions EXCEPT !.yieldAfterRows = v] : v \in {<<0>>, <<2>>, <<>>}} \cup
  {[BaseOptions EXCEPT !.onProgress = v] : v \in {"none", "async", "throws", "rejects"}} \cup
  {[BaseOptions EXCEPT !.onRectangleAdded = "async"]} \cup
  {[BaseOptions EXCEPT !.shouldAbort = "none"]} \cup
  {[BaseOptions EXCEPT !.gapMm = <<Mm(1)>>, !.maxShapes = <<2>>, !.maxWidthMm = Mm(1)]}

\* physical sheets: 1, 2 and 1/2 pixel per millimetre, and an uneven scale
Sheets(w, h) ==
  {<<Mm(w), Mm(h)>>, <<Mm(w) \div 2, Mm(h)>>, <<Mm(2 * w), Mm(2 * h)>>, <<Mm(3), Mm(2)>>}

BadSheets(w, h) == {<<0, Mm(h)>>, <<Mm(w), 0 - Mm(1)>>}

GapOptions == [BaseOptions EXCEPT !.gapMm = <<Mm(1)>>]

\* the options handleAutoFillRectangles passes, with the gap and the step
\* the user has set
HookOptions(gap, step) ==
  [maxWidthMm |-> Mm(100), maxHeightMm |-> Mm(50),
   minWidthMm |-> <<Mm(30)>>, minHeightMm |-> <<Mm(20)>>,
   stepMm |-> <<Max2(Mm(1), step)>>, gapMm |-> <<gap>>,
   coverageThreshold |-> <<[num |-> 9, den |-> 10]>>,
   orientation |-> <<"both">>, maxShapes |-> <<500>>,
   progressIntervalRows |-> <<5>>, yieldAfterRows |-> <<20>>,
   onProgress |-> "sync", shouldAbort |-> "flag", onRectangleAdded |-> "none"]

\* sheets of 40 mm per pixel and of 25 mm per pixel
HookSheets(w, h) == {<<Mm(40 * w), Mm(40 * h)>>, <<Mm(25 * w), Mm(25 * h)>>}

\* the calls explored: every block mask on every sheet with the base options
\* and with a gap; every variant of the options on the masks with at most one
\* occupied cell, on the 1 px/mm and the 2 px/mm sheet
Calls(w, h) ==
  (Masks(w, h) \X Sheets(w, h) \X {BaseOptions}) \cup
  (Masks(w, h) \X {<<Mm(w), Mm(h)>>, <<Mm(w) \div 2, Mm(h)>>} \X {GapOptions}) \cup
  (FewMasks(w, h) \X {<<Mm(w), Mm(h)>>, <<Mm(w) \div 2, Mm(h) \div 2>>}
                  \X (SizeVariants \cup OtherVariants)) \cup
  (FewMasks(w, h) \X HookSheets(w, h) \X {HookOptions(0, Mm(70))}) \cup
  ({[i \in Cells(w, h) |-> Free]} \X BadSheets(w, h) \X {BaseOptions}) \cup
  (WrongLengthMasks(w, h) \X {<<Mm(w), Mm(h)>>} \X {BaseOptions})

\* the calls whose every behaviour is followed to its end: a free mask and a
\* mask with an occupied stripe, with each kind of progress callback, of
\* yield rhythm and of cancellation, and a call that fails its validation
LiveCalls(w, h) ==
  ({[i \in Cells(w, h) |-> Free], BlockMask(w, h, 1, 1, 0, h - 1)}
     \X {<<Mm(w), Mm(h)>>}
     \X ({BaseOptions, GapOptions}
           \cup {[BaseOptions EXCEPT !.onProgress = v] : v \in {"none", "async", "throws", "rejects"}}
           \cup {[BaseOptions EXCEPT !.yieldAfterRows = v] : v \in {<<0>>, <<2>>}}
           \cup {[BaseOptions EXCEPT !.maxShapes = <<1>>],
                 [BaseOptions EXCEPT !.shouldAbort = "none"],
                 [BaseOptions EXCEPT !.onProgress = "async", !.progressIntervalRows = <<2>>,
                                     !.yieldAfterRows = <<0>>]})) \cup
  ({[i \in Cells(w, h) |-> Free]} \X BadSheets(w, h) \X {BaseOptions})

\* Scenario A: a free 100 x 100 mask for a 50 mm x 50 mm sheet; what the
\* scenario leaves open (yield rhythm, progress and abort callbacks) varies
ScenarioAOptions ==
  {[maxWidthMm |-> Mm(20), maxHeightMm |-> Mm(20),
    minWidthMm |-> <<Mm(10)>>, minHeightMm |-> <<Mm(10)>>,
    stepMm |-> <<Mm(10)>>, gapMm |-> <<0>>,
    coverageThreshold |-> <<[num |-> 9, den |-> 10]>>,
    orientation |-> <<"both">>, maxShapes |-> <<>>,
    progressIntervalRows |-> <<>>, yieldAfterRows |-> yr,
    onProgress |-> "sync", shouldAbort |-> sa, onRectangleAdded |-> "none"] :
     yr \in {<<>>, <<1>>}, sa \in {"none", "flag"}}

ScenarioACalls ==
  {[i \in Cells(100, 100) |-> Free]} \X {<<Mm(50), Mm(50)>>} \X ScenarioAOptions

\* the arguments of the direct calls of buildDescendingRange: whole and
\* fractional millimetres, values with a fifth decimal, steps that divide the
\* span and steps that do not, and steps that are not positive
RangeEnds ==
  {Mm(k) : k \in 1..MaxRangeMm} \cup {Tenths(5), Mm(1) + Tenths(4), Mm(2) + 4}

RangeSteps == {Mm(1), Tenths(7), Tenths(2), 33333, 0, 0 - Mm(1)}

RangeCalls == RangeEnds \X RangeEnds \X RangeSteps

NoGrid == <<>>

ScanReset ==
  /\ x = 0 /\ y = 0
  /\ available = NoGrid /\ original = NoGrid /\ sizePairs = <<>>
  /\ suggestions = <<>>
  /\ processedRows = 0
  /\ pollCount = 0 /\ progressCalls = 0 /\ delivered = <<>> /\ anchorsExamined = 0
  /\ abortSeen = FALSE

\* useShapeTools.ts lines 187-193: the progress shown before the first report
InitialProgress ==
  [progress |-> [num |-> 0, den |-> 1], processedRows |-> 0, totalRows |-> 0,
   suggestions |-> 0, lastSuggestion |-> <<>>]

\* the hook before a run: nothing is being filled, no message is shown
HookReset ==
  /\ hookPc = "ready"
  /\ autoFilling = FALSE
  /\ shapeMessage = "none"
  /\ stopCalled = FALSE
  /\ autoFillProgress = <<>>
  /\ svgShapes = <<>> /\ svgUpdates = 0

\* useBoundaryBox.ts lines 838-839: nothing is grouped yet
GroupingReset ==
  /\ rects = <<>>
  /\ clusterI = 1
  /\ processed = {}
  /\ currentRects = <<>>
  /\ clusters = <<>> /\ mergedPaths = <<>>

\* the boundary-box hook is not run
MergerUnused ==
  /\ mergePc = "unused"
  /\ returned = <<>>
  /\ shapeGap = 0 /\ shapeCornerRadius = 0
  /\ realtimeRects = <<>>
  /\ GroupingReset
  /\ svgPaths = <<>>

\* beside a scan whose stepMm is <= 0, buildDescendingRange may be called
\* directly with the scan's width ends and that step
DirectFor(opts) ==
  IF opts.stepMm # <<>> /\ opts.stepMm[1] <= 0
    THEN {<<>>, <<Max2(opts.maxWidthMm, Mm(1)),
                  Max2(Nullish(opts.minWidthMm, Mm(20)), Mm(1)), opts.stepMm[1]>>}
    ELSE {<<>>}

\* the state before the hook is run on one of calls, for a w x h mask
InitWith(calls, w, h) ==
  /\ \E c \in calls :
       /\ mask = c[1]
       /\ widthMm = c[2][1] /\ heightMm = c[2][2]
       /\ options = c[3]
  /\ maskWidth = w /\ maskHeight = h
  /\ pc = "idle"
  /\ ScanReset
  /\ HookReset
  /\ abortFlag \in BOOLEAN
  /\ callNo = 1 /\ firstResult = <<>>
  /\ rangeArgs \in DirectFor(options) /\ rangeResult = <<>>
  /\ MergerUnused

\* the state before buildDescendingRange is called on its own: no scan is
\* started in such a run
RangeInit ==
  /\ rangeArgs \in RangeCalls
  /\ rangeResult = <<>>
  /\ mask = [i \in Cells(MaxMaskW, MaxMaskH) |-> Free]
  /\ maskWidth = MaxMaskW /\ maskHeight = MaxMaskH
  /\ widthMm = Mm(MaxMaskW) /\ heightMm = Mm(MaxMaskH)
  /\ options = BaseOptions
  /\ pc = "idle"
  /\ ScanReset
  /\ hookPc = "unused" /\ autoFilling = FALSE /\ shapeMessage = "none"
  /\ stopCalled = FALSE
  /\ autoFillProgress = <<>>
  /\ svgShapes = <<>> /\ svgUpdates = 0
  /\ abortFlag = FALSE
  /\ callNo = 1 /\ firstResult = <<>>
  /\ MergerUnused

Init == InitWith(Calls(MaxMaskW, MaxMaskH), MaxMaskW, MaxMaskH) \/ RangeInit

\* ------------------------------------------------------------ actions
\* the scan waits for a later task of the event loop: the zero-delay timers
\* of the hook and of the scan, and a progress promise that is still pending.
\* An await of a value that is already settled resumes in a microtask, before
\* any event handler can run.
Suspended ==
  \/ hookPc = "timer"
  \/ /\ hookPc = "engine"
     /\ \/ pc = "yield"
        \/ pc \in {"awaitInitial", "awaitFinal"} /\ Reports(TRUE) /\ ProgressPending
        \/ pc = "awaitRow" /\ Reports(FALSE) /\ ProgressPending

Ended == pc \in {"done", "failed"}

\* useShapeTools.ts lines 183-194: the hook starts a run (the boundary box
\* and the SVG are present) and waits for a zero-delay timer
HandleAutoFillRectangles ==
  /\ hookPc = "ready"
  /\ abortFlag' = FALSE
  /\ autoFilling' = TRUE
  /\ shapeMessage' = "filling"
  /\ stopCalled' = FALSE
  /\ autoFillProgress' = <<InitialProgress>>
  /\ hookPc' = "timer"
  /\ UNCHANGED <<range, merger, inputs, pc, x, y, available, original, sizePairs, suggestions,
                 processedRows, pollCount, progressCalls, delivered, anchorsExamined,
                 abortSeen, callNo, firstResult, svg>>

\* the timer of the hook fires and the hook calls the function: lines 459-551,
\* validation, set-up and the forced first progress report
Call ==
  /\ hookPc = "timer"
  /\ pc = "idle"
  /\ hookPc' = "engine"
  /\ IF ~ValidInput
       THEN /\ pc' = "failed"
            /\ UNCHANGED <<x, y, available, original, sizePairs, suggestions,
                           processedRows, progressCalls>>
       ELSE /\ available' = FreshGrid
            /\ original' = FreshGrid
            /\ sizePairs' = BuildSizePairs
            /\ suggestions' = <<>>
            /\ processedRows' = 0
            /\ x' = 0 /\ y' = 0
            /\ progressCalls' = progressCalls + Bump(Reports(TRUE))
            /\ pc' = AfterReport(TRUE, "awaitInitial")
  /\ UNCHANGED <<range, merger, inputs, abortFlag,
                 pollCount, anchorsExamined, abortSeen,
                 callNo, firstResult, autoFilling, shapeMessage, stopCalled, svg>>
  /\ Deliver(ValidInput, TRUE)

\* line 551: the await of reportProgress(true) resumes
ResumeInitial ==
  /\ pc = "awaitInitial"
  /\ pc' = "rowHead"
  /\ UNCHANGED <<range, merger, inputs, x, y, available, original, sizePairs, suggestions,
                 processedRows, abortFlag, pollCount, progressCalls, delivered, autoFillProgress,
                 anchorsExamined, abortSeen, callNo,
                 firstResult, hook>>

\* lines 599-604: outer loop test, poll at the start of a row, row count
RowHead ==
  /\ pc = "rowHead"
  /\ IF ~OuterLoopTest
       THEN /\ pc' = "finish"
            /\ UNCHANGED <<x, processedRows, pollCount, abortSeen>>
       ELSE /\ pollCount' = pollCount + Bump(Polled)
            /\ IF PollTrue
                 THEN /\ abortSeen' = TRUE
                      /\ pc' = RowBreak
                      /\ UNCHANGED <<x, processedRows>>
                 ELSE /\ processedRows' = processedRows + 1
                      /\ x' = 0
                      /\ pc' = "col"
                      /\ UNCHANGED abortSeen
  /\ UNCHANGED <<range, merger, inputs, y, available, original, sizePairs, suggestions,
                 abortFlag, progressCalls, delivered, autoFillProgress, anchorsExamined,
                 callNo, firstResult, hook>>

\* lines 605-633: one pass of the inner loop body; a poll that returns true
\* breaks the inner loop and runs into reportProgress() of line 635
Anchor ==
  /\ pc = "col"
  /\ InnerLoopTest
  /\ IF PollTrue
       THEN /\ pollCount' = pollCount + Bump(Polled)
            /\ abortSeen' = TRUE
            /\ progressCalls' = progressCalls + Bump(Reports(FALSE))
            /\ pc' = AfterReport(FALSE, ColumnBreak)
            /\ UNCHANGED <<x, mask, available, suggestions, anchorsExamined>>
       ELSE /\ pollCount' = pollCount + PollsAtAnchor(x, y)
            /\ anchorsExamined' = anchorsExamined + 1
            /\ x' = x + stepPxX
            /\ pc' = "col"
            /\ UNCHANGED <<abortSeen, progressCalls>>
            /\ IF At(available, y * maskWidth + x) = 0 \/ FirstAccepted(x, y) = 0
                 THEN UNCHANGED <<mask, available, suggestions>>
                 ELSE LET pair == sizePairs[FirstAccepted(x, y)]
                      IN  /\ suggestions' = Push(suggestions, Suggestion(x, y, pair))
                          /\ available' = markUsed(available, x, y,
                                                   widthPxOf(pair), heightPxOf(pair))
                          /\ mask' = CallerMask(mask, available')
  /\ UNCHANGED <<range, merger, maskWidth, maskHeight, widthMm, heightMm, options, y,
                 original, sizePairs, processedRows, abortFlag, callNo, firstResult,
                 hook>>
  /\ Deliver(PollTrue, FALSE)

\* line 605 fails its test, line 635 calls reportProgress()
RowEnd ==
  /\ pc = "col"
  /\ ~InnerLoopTest
  /\ progressCalls' = progressCalls + Bump(Reports(FALSE))
  /\ pc' = AfterReport(FALSE, "awaitRow")
  /\ UNCHANGED <<range, merger, inputs, x, y, available, original, sizePairs, suggestions,
                 processedRows, abortFlag, pollCount, anchorsExamined, abortSeen,
                 callNo, firstResult, hook>>
  /\ Deliver(TRUE, FALSE)

\* lines 635-639: the await resumes; the zero-delay timer is set when due
ResumeRow ==
  /\ pc = "awaitRow"
  /\ pc' = IF YieldDue THEN "yield" ELSE "rowPoll"
  /\ UNCHANGED <<range, merger, inputs, x, y, available, original, sizePairs, suggestions,
                 processedRows, abortFlag, pollCount, progressCalls, delivered, autoFillProgress,
                 anchorsExamined, abortSeen, callNo,
                 firstResult, hook>>

\* line 638: the timer fires
ResumeYield ==
  /\ pc = "yield"
  /\ pc' = AfterYield
  /\ UNCHANGED <<range, merger, inputs, x, y, available, original, sizePairs, suggestions,
                 processedRows, abortFlag, pollCount, progressCalls, delivered, autoFillProgress,
                 anchorsExamined, abortSeen, callNo,
                 firstResult, hook>>

\* lines 641-643 and the y += stepPxY of line 599
RowPoll ==
  /\ pc = "rowPoll"
  /\ pollCount' = pollCount + Bump(Polled)
  /\ IF PollTrue
       THEN /\ abortSeen' = TRUE
            /\ pc' = RowEndBreak
            /\ UNCHANGED y
       ELSE /\ y' = y + stepPxY
            /\ pc' = "rowHead"
            /\ UNCHANGED abortSeen
  /\ UNCHANGED <<range, merger, inputs, x, available, original, sizePairs, suggestions,
                 processedRows, abortFlag, progressCalls, delivered, autoFillProgress, anchorsExamined,
                 callNo, firstResult, hook>>

\* lines 646-647: clamp the row count, forced last progress report
Finish ==
  /\ pc = "finish"
  /\ processedRows' = Min2(processedRows, totalRows)
  /\ progressCalls' = progressCalls + Bump(Reports(TRUE))
  /\ pc' = AfterReport(TRUE, "awaitFinal")
  /\ UNCHANGED <<range, merger, inputs, x, y, available, original, sizePairs, suggestions,
                 abortFlag, pollCount, anchorsExamined, abortSeen, callNo,
                 firstResult, hook>>
  /\ Deliver(TRUE, TRUE)

\* line 649: the promise resolves with the suggestions
ResumeFinal ==
  /\ pc = "awaitFinal"
  /\ pc' = "done"
  /\ UNCHANGED <<range, merger, inputs, x, y, available, original, sizePairs, suggestions,
                 processedRows, abortFlag, pollCount, progressCalls, delivered, autoFillProgress,
                 anchorsExamined, abortSeen, callNo,
                 firstResult, hook>>

\* the message the hook ends with, useShapeTools.ts lines 248-303 (the SVG
\* of the result parses, so the success branch does not throw)
\* mutant: the flag is not read after the call
FinalMessage_FlagUnread ==
  IF pc = "failed" THEN "failed"
  ELSE IF Len(suggestions) = 0 THEN "noWhiteArea"
  ELSE "success"

FinalMessage ==
  IF pc = "failed" THEN "failed"
  ELSE IF abortFlag THEN "cancelled"
  ELSE IF Len(suggestions) = 0 THEN "noWhiteArea"
  ELSE "success"

\* useShapeTools.ts lines 248-307: the call has settled; the hook reads the
\* flag, shows its last message and, in finally, leaves the filling state
HookSettle ==
  /\ hookPc = "engine"
  /\ Ended
  /\ shapeMessage' = FinalMessage
  /\ IF FinalMessage = "success"
       THEN svgShapes' = suggestions /\ svgUpdates' = svgUpdates + 1
       ELSE UNCHANGED svg
  /\ autoFilling' = FALSE
  /\ autoFillProgress' = <<>>
  /\ hookPc' = "settled"
  /\ UNCHANGED <<range, merger, inputs, pc, x, y, available, original, sizePairs, suggestions,
                 processedRows, abortFlag, pollCount, progressCalls, delivered,
                 anchorsExamined, abortSeen, callNo, firstResult, stopCalled>>

\* handleStopAutoFill: the stop button exists while autoFilling is true
\* (ShapeTools component), and its handler runs between two tasks; the run
\* that follows a cancelled one is left to finish
StopAutoFill ==
  /\ Suspended
  /\ autoFilling
  /\ callNo = 2 => firstResult[1].outcome # "cancelled"
  /\ abortFlag' = TRUE
  /\ shapeMessage' = "stopping"
  /\ stopCalled' = TRUE
  /\ UNCHANGED <<range, merger, inputs, pc, x, y, available, original, sizePairs, suggestions,
                 processedRows, pollCount, progressCalls, delivered, anchorsExamined,
                 abortSeen, callNo, firstResult, hookPc, autoFilling,
                 autoFillProgress, svg>>

\* resetShapeState, run by the effect on imageData between two tasks; the
\* image is replaced during the first run only, and after a stop request, where
\* the reset takes the request back
ResetShapeState ==
  /\ Suspended
  /\ callNo = 1
  /\ stopCalled
  /\ abortFlag' = FALSE
  /\ autoFilling' = FALSE
  /\ shapeMessage' = "none"
  /\ autoFillProgress' = <<>>
  /\ UNCHANGED <<range, merger, inputs, pc, x, y, available, original, sizePairs, suggestions,
                 processedRows, pollCount, progressCalls, delivered, anchorsExamined,
                 abortSeen, callNo, firstResult, hookPc, stopCalled, svg>>

\* the options of a further call: the same ones, or, after a call that ran to
\* its end, the same ones with a progress callback that does not fail, or
\* with the cap left out, or with the coverage threshold of BaseOptions
SecondOptions ==
  {options} \cup
  (IF pc = "done" /\ ~abortSeen /\ ProgressFails
     THEN {[options EXCEPT !.onProgress = "sync"]} ELSE {}) \cup
  (IF pc = "done" /\ ~abortSeen /\ options.maxShapes # <<>>
     THEN {[options EXCEPT !.maxShapes = <<>>]} ELSE {}) \cup
  (IF pc = "done" /\ ~abortSeen
        /\ options.coverageThreshold # BaseOptions.coverageThreshold
     THEN {[options EXCEPT !.coverageThreshold = BaseOptions.coverageThreshold]}
     ELSE {})

\* the hook is run once more on the same mask and sheet; what the call
\* before left in its grids, its list and its counters of rows is still there
Reinvoke ==
  /\ hookPc = "settled"
  /\ callNo = 1
  /\ callNo' = 2
  /\ firstResult' = <<[outcome |-> IF abortSeen THEN "cancelled" ELSE pc,
                       suggestions |-> IF abortSeen THEN <<>> ELSE suggestions,
                       options |-> options]>>
  /\ options' \in SecondOptions
  /\ pc' = "idle"
  /\ pollCount' = 0 /\ progressCalls' = 0 /\ delivered' = <<>>
  /\ anchorsExamined' = 0
  /\ abortSeen' = FALSE
  /\ hookPc' = "ready"
  /\ UNCHANGED <<range, merger, mask, maskWidth, maskHeight, widthMm, heightMm, abortFlag,
                 x, y, available, original, sizePairs, suggestions, processedRows,
                 autoFilling, shapeMessage, stopCalled, autoFillProgress, svg>>

\* buildDescendingRange(max, min, step) is called and returns
DirectRangeCall ==
  /\ rangeArgs # <<>>
  /\ rangeResult = <<>>
  /\ rangeResult' = <<buildDescendingRange(rangeArgs[1], rangeArgs[2], rangeArgs[3])>>
  /\ UNCHANGED <<rangeArgs, merger, inputs, pc, x, y, available, original, sizePairs,
                 suggestions, processedRows, abortFlag, pollCount, progressCalls, delivered, autoFillProgress,
                 anchorsExamined, abortSeen, callNo, firstResult, hook>>

\* the steps of a run of the hook and of the scan it starts
ScanNext ==
  \/ HandleAutoFillRectangles
  \/ Call
  \/ ResumeInitial
  \/ RowHead
  \/ Anchor
  \/ RowEnd
  \/ ResumeRow
  \/ ResumeYield
  \/ RowPoll
  \/ Finish
  \/ ResumeFinal
  \/ HookSettle
  \/ StopAutoFill
  \/ ResetShapeState
  \/ Reinvoke

Next ==
  \/ ScanNext
  \/ DirectRangeCall

Spec == Init /\ [][Next]_vars

\* once the function has been called, each of its steps and the hook's
\* continuation is a task or a microtask of the event loop, which runs it
\* when it is due: awaited values settle and the zero-delay timers fire
ScanStep ==
  \/ ResumeInitial
  \/ RowHead
  \/ Anchor
  \/ RowEnd
  \/ ResumeRow
  \/ ResumeYield
  \/ RowPoll
  \/ Finish
  \/ ResumeFinal
  \/ HookSettle

InitA == InitWith(ScenarioACalls, 100, 100)

SpecA == InitA /\ [][ScanNext]_vars

LiveInit == InitWith(LiveCalls(MaxMaskW, MaxMaskH), MaxMaskW, MaxMaskH)

LiveSpec == LiveInit /\ [][ScanNext]_vars /\ WF_vars(ScanStep)

\* --------------------------------------------------- the outline merger
\* useBoundaryBox.ts: what handleAutoFillRectangles does once its call of
\* suggestRectanglesFromMask has returned. The continuation is synchronous,
\* so the abort flag it read at line 803 keeps its value to the end and the
\* later tests of the flag (lines 842, 855, 930) never throw.

Abs(v) == IF v < 0 THEN -v ELSE v

\* Math.round(a * b) for non-negative rationals a and b
RoundProduct(a, b) == (2 * a.num * b.num + a.den * b.den) \div (2 * a.den * b.den)

\* lines 825-830: a suggestion aligned to whole pixels
AlignedRect(s) ==
  [x |-> RoundProduct(s.xMm, pxPerMmX), y |-> RoundProduct(s.yMm, pxPerMmY),
   w |-> RoundProduct(s.widthMm, pxPerMmX), h |-> RoundProduct(s.heightMm, pxPerMmY)]

\* line 728: Math.max(0, cornerRadius) * Math.min(pxPerMmX, pxPerMmY), in pixels
cornerRadiusPx ==
  LET m == IF pxPerMmX.num * pxPerMmY.den <= pxPerMmY.num * pxPerMmX.den
             THEN pxPerMmX ELSE pxPerMmY
  IN  [num |-> Max2(0, shapeCornerRadius) * m.num, den |-> m.den]

\* line 814: the test that decides whether the outlines are merged
MergeWanted == shapeGap = 0 /\ cornerRadiusPx.num = 0 /\ Len(returned) > 0

\* line 821: the tolerance of the grouping, in pixels
groupTolerance == 2

\* lines 866-909: the four edge tests between a member r1 of the group and r2
Adjacent(r1, r2) ==
  LET overlapTop    == Max2(r1.y, r2.y)
      overlapBottom == Min2(r1.y + r1.h, r2.y + r2.h)
      overlapLeft   == Max2(r1.x, r2.x)
      overlapRight  == Min2(r1.x + r1.w, r2.x + r2.w)
  IN  \/ Abs((r1.x + r1.w) - r2.x) < groupTolerance
         /\ overlapBottom > overlapTop + groupTolerance
      \/ Abs(r1.x - (r2.x + r2.w)) < groupTolerance
         /\ overlapBottom > overlapTop + groupTolerance
      \/ Abs((r1.y + r1.h) - r2.y) < groupTolerance
         /\ overlapRight > overlapLeft + groupTolerance
      \/ Abs(r1.y - (r2.y + r2.h)) < groupTolerance
         /\ overlapRight > overlapLeft + groupTolerance

\* mutant: a rectangle joins a group only next to the rectangle that opened it
GroupMembers_SeedOnly == {currentRects[1]}

\* line 864: the members r1 of the group that r2 is compared with
GroupMembers == SeqRange(currentRects)

\* lines 859-912: one pass of the while loop: the first index j, not yet in a
\* group, whose rectangle is adjacent to a member of this one; 0 if none is
FirstAdjacent ==
  LET found == {j \in (1..Len(rects)) \ processed :
                  \E i \in GroupMembers : Adjacent(rects[i], rects[j])}
  IN  IF found = {} THEN 0 ELSE CHOOSE j \in found : \A o \in found : j <= o

\* lines 832-834 and 257-262: the corners of a rectangle, clockwise on screen
\* from the top left one
Corners(r) ==
  <<[x |-> r.x, y |-> r.y], [x |-> r.x + r.w, y |-> r.y],
    [x |-> r.x + r.w, y |-> r.y + r.h], [x |-> r.x, y |-> r.y + r.h]>>

\* line 832: rectToPath, the path as the list of its vertices; Z closes it
rectToPath(r) == Corners(r)

\* line 252: twice the tolerance 0.5 of mergeRectangleOutlines
outlineToleranceTwice == 1

\* lines 270-274: the corner lies inside some other rectangle of the list
isInsideOther(rs, corner, rectIndex) ==
  \E idx \in 1..Len(rs) :
    /\ idx # rectIndex
    /\ 2 * corner.x > 2 * rs[idx].x + outlineToleranceTwice
    /\ 2 * corner.x < 2 * (rs[idx].x + rs[idx].w) - outlineToleranceTwice
    /\ 2 * corner.y > 2 * rs[idx].y + outlineToleranceTwice
    /\ 2 * corner.y < 2 * (rs[idx].y + rs[idx].h) - outlineToleranceTwice

\* lines 278-280: a corner equal to this one, up to the tolerance, was kept
exists(kept, corner) ==
  \E k \in 1..Len(kept) :
    /\ 2 * Abs(kept[k].x - corner.x) < outlineToleranceTwice
    /\ 2 * Abs(kept[k].y - corner.y) < outlineToleranceTwice

\* lines 256-285: outerCorners after the first n corners of the list, the
\* four corners of the first rectangle first
RECURSIVE outerCornersUpTo(_, _)
outerCornersUpTo(rs, n) ==
  IF n = 0 THEN <<>>
  ELSE LET kept      == outerCornersUpTo(rs, n - 1)
           rectIndex == ((n - 1) \div 4) + 1
           corner    == Corners(rs[rectIndex])[((n - 1) % 4) + 1]
       IN  IF isInsideOther(rs, corner, rectIndex) \/ exists(kept, corner)
             THEN kept
             ELSE Append(kept, corner)

SetMin(S) == CHOOSE m \in S : \A o \in S : m <= o

\* lines 289-292 and 297-300: the bounding box of a list of points
BoundsOf(points) ==
  LET xs == {points[k].x : k \in 1..Len(points)}
      ys == {points[k].y : k \in 1..Len(points)}
  IN  [minX |-> SetMin(xs), maxX |-> SetMax(xs), minY |-> SetMin(ys), maxY |-> SetMax(ys)]

\* lines 301-307: point - centre, doubled so that it stays an integer
FromCentre(point, box) ==
  [x |-> 2 * point.x - (box.minX + box.maxX), y |-> 2 * point.y - (box.minY + box.maxY)]

\* Math.atan2(v.y, v.x) lies in (-pi, 0) for v.y < 0, is 0 for v.y = 0 and
\* v.x >= 0, lies in (0, pi) for v.y > 0 and is pi for v.y = 0 and v.x < 0
AngleClass(v) ==
  IF v.y < 0 THEN 0 ELSE IF v.y > 0 THEN 2 ELSE IF v.x >= 0 THEN 1 ELSE 3

\* Math.atan2(a.y, a.x) < Math.atan2(b.y, b.x)
AngleLess(a, b) ==
  \/ AngleClass(a) < AngleClass(b)
  \/ /\ AngleClass(a) = AngleClass(b)
     /\ AngleClass(a) \in {0, 2}
     /\ a.x * b.y - a.y * b.x > 0

\* mutant: the corners stay in the order they were collected in
InsertByAngle_Unsorted(sorted, point, box) == Append(sorted, point)

\* lines 305-309: Array.prototype.sort is stable: a point goes before the
\* first point of a greater angle
InsertByAngle(sorted, point, box) ==
  LET later == {k \in 1..Len(sorted) :
                  AngleLess(FromCentre(point, box), FromCentre(sorted[k], box))}
      at    == IF later = {} THEN Len(sorted) + 1 ELSE SetMin(later)
  IN  SubSeq(sorted, 1, at - 1) \o <<point>> \o SubSeq(sorted, at, Len(sorted))

RECURSIVE SortedByAngle(_, _, _)
SortedByAngle(points, n, box) ==
  IF n = 0 THEN <<>>
  ELSE InsertByAngle(SortedByAngle(points, n - 1, box), points[n], box)

\* lines 242-319: the path of a group of rectangles, as its vertices
mergeRectangleOutlines(rs) ==
  IF Len(rs) = 0 THEN <<>>
  ELSE IF Len(rs) = 1 THEN Corners(rs[1])
  ELSE LET outerCorners == outerCornersUpTo(rs, 4 * Len(rs))
       IN  IF Len(outerCorners) < 3
             THEN LET all == BoundsOf([n \in 1..(4 * Len(rs)) |->
                               Corners(rs[((n - 1) \div 4) + 1])[((n - 1) % 4) + 1]])
                  IN  <<[x |-> all.minX, y |-> all.minY], [x |-> all.maxX, y |-> all.minY],
                        [x |-> all.maxX, y |-> all.maxY], [x |-> all.minX, y |-> all.maxY]>>
             ELSE SortedByAngle(outerCorners, Len(outerCorners), BoundsOf(outerCorners))

\* lines 916-923: the path pushed for the finished group
GroupPath ==
  LET group == [k \in 1..Len(currentRects) |-> rects[currentRects[k]]]
  IN  IF Len(group) = 1 THEN rectToPath(group[1]) ELSE mergeRectangleOutlines(group)

\* the sheet of the runs of the boundary-box hook, in pixels
MergeW == 12

MergeH == 12

\* rectangles a scan of that sheet may return, in pixels: side by side,
\* stacked, a pixel apart, two pixels apart, meeting at a corner only,
\* sharing a span of two or of three pixels
RectPool ==
  {[x |-> 0, y |-> 0, w |-> 4, h |-> 4], [x |-> 4, y |-> 0, w |-> 4, h |-> 4],
   [x |-> 8, y |-> 0, w |-> 4, h |-> 4], [x |-> 0, y |-> 4, w |-> 4, h |-> 4],
   [x |-> 4, y |-> 4, w |-> 4, h |-> 4], [x |-> 0, y |-> 5, w |-> 4, h |-> 4],
   [x |-> 4, y |-> 2, w |-> 4, h |-> 4], [x |-> 4, y |-> 1, w |-> 4, h |-> 4],
   [x |-> 0, y |-> 6, w |-> 4, h |-> 4], [x |-> 8, y |-> 8, w |-> 4, h |-> 4],
   [x |-> 0, y |-> 4, w |-> 8, h |-> 4]}

Overlapping(a, b) ==
  /\ a.x < b.x + b.w /\ b.x < a.x + a.w
  /\ a.y < b.y + b.h /\ b.y < a.y + a.h

\* the suggestions of one call never overlap
RectLists(n) ==
  {l \in UNION {[1..k -> RectPool] : k \in 0..n} :
     \A i \in DOMAIN l : \A j \in DOMAIN l : i < j => ~Overlapping(l[i], l[j])}

\* <<gap, cornerRadius>> of the shape state
ShapeSettings == {<<0, 0>>, <<Mm(1), 0>>, <<0, Mm(1)>>}

\* the state when the call of the boundary-box hook has returned: the scan
\* itself is not followed in such a run
MergeInit ==
  /\ maskWidth = MergeW /\ maskHeight = MergeH
  /\ widthMm = Mm(6) /\ heightMm = Mm(6)
  /\ mask = [i \in Cells(MergeW, MergeH) |-> Free]
  /\ options = BaseOptions
  /\ pc = "idle"
  /\ ScanReset
  /\ hookPc = "unused" /\ autoFilling = FALSE /\ shapeMessage = "none"
  /\ stopCalled = FALSE
  /\ autoFillProgress = <<>>
  /\ abortFlag \in BOOLEAN
  /\ callNo = 1 /\ firstResult = <<>>
  /\ rangeArgs = <<>> /\ rangeResult = <<>>
  /\ mergePc = "returned"
  /\ \E l \in RectLists(MaxRects) :
       returned = [k \in DOMAIN l |->
                     [xMm      |-> toMm(l[k].x, pxPerMmX),
                      yMm      |-> toMm(l[k].y, pxPerMmY),
                      widthMm  |-> toMm(l[k].w, pxPerMmX),
                      heightMm |-> toMm(l[k].h, pxPerMmY)]]
  /\ \E s \in ShapeSettings : shapeGap = s[1] /\ shapeCornerRadius = s[2]
  /\ realtimeRects = RectanglesAdded(returned)
  /\ svgShapes = realtimeRects /\ svgUpdates = Len(realtimeRects)
  /\ GroupingReset
  /\ svgPaths = <<>>

scan == <<inputs, pc, x, y, available, original, sizePairs, suggestions,
          processedRows, abortFlag, pollCount, progressCalls, delivered,
          anchorsExamined, abortSeen, callNo, firstResult, hookPc, autoFilling,
          stopCalled, autoFillProgress, range>>

\* lines 803-835 and 947-951: the call has returned
AfterCall ==
  /\ mergePc = "returned"
  /\ IF abortFlag
       THEN /\ shapeMessage' = "cancelled"
            /\ mergePc' = "done"
            /\ UNCHANGED <<svg, grouping>>
     ELSE IF Len(returned) = 0
       THEN /\ shapeMessage' = "noWhiteArea"
            /\ mergePc' = "done"
            /\ UNCHANGED <<svg, grouping>>
     ELSE IF MergeWanted
       THEN /\ svgShapes' = SelectSeq(svgShapes, LAMBDA e : e \notin SeqRange(realtimeRects))
            /\ rects' = [k \in DOMAIN returned |-> AlignedRect(returned[k])]
            /\ mergePc' = "group"
            /\ UNCHANGED <<svgUpdates, shapeMessage, clusterI, processed,
                           currentRects, clusters, mergedPaths>>
     ELSE /\ svgUpdates' = svgUpdates + 1
          /\ shapeMessage' = "success"
          /\ mergePc' = "done"
          /\ UNCHANGED <<svgShapes, grouping>>
  /\ UNCHANGED <<scan, returned, shapeGap, shapeCornerRadius, realtimeRects, svgPaths>>

\* lines 840-849: the head of the for loop over rects
GroupHead ==
  /\ mergePc = "group"
  /\ clusterI <= Len(rects)
  /\ IF clusterI \in processed
       THEN /\ clusterI' = clusterI + 1
            /\ UNCHANGED <<mergePc, processed, currentRects>>
       ELSE /\ currentRects' = <<clusterI>>
            /\ processed' = processed \cup {clusterI}
            /\ mergePc' = "grow"
            /\ UNCHANGED clusterI
  /\ UNCHANGED <<scan, hook, returned, shapeGap, shapeCornerRadius, realtimeRects,
                 rects, clusters, mergedPaths, svgPaths>>

\* lines 852-913: a pass of the while loop that finds a rectangle to add
AbsorbAdjacent ==
  /\ mergePc = "grow"
  /\ FirstAdjacent # 0
  /\ currentRects' = Append(currentRects, FirstAdjacent)
  /\ processed' = processed \cup {FirstAdjacent}
  /\ UNCHANGED <<scan, hook, mergePc, returned, shapeGap, shapeCornerRadius,
                 realtimeRects, rects, clusterI, clusters, mergedPaths, svgPaths>>

\* lines 852-924: the pass that finds none ends the while loop; the path of
\* the group is pushed
PushMergedPath ==
  /\ mergePc = "grow"
  /\ FirstAdjacent = 0
  /\ mergedPaths' = Append(mergedPaths, GroupPath)
  /\ clusters' = Append(clusters, currentRects)
  /\ clusterI' = clusterI + 1
  /\ mergePc' = "group"
  /\ UNCHANGED <<scan, hook, returned, shapeGap, shapeCornerRadius, realtimeRects,
                 rects, processed, currentRects, svgPaths>>

\* lines 927-951: a path element for every merged path, then the document is
\* handed to onSvgUpdate
CreatePathElements ==
  /\ mergePc = "group"
  /\ clusterI > Len(rects)
  /\ svgPaths' = svgPaths \o mergedPaths
  /\ svgUpdates' = svgUpdates + 1
  /\ shapeMessage' = "success"
  /\ mergePc' = "done"
  /\ UNCHANGED <<scan, hookPc, autoFilling, stopCalled, svgShapes, returned,
                 shapeGap, shapeCornerRadius, realtimeRects, grouping>>

MergeNext ==
  \/ AfterCall
  \/ GroupHead
  \/ AbsorbAdjacent
  \/ PushMergedPath
  \/ CreatePathElements

MergeSpec == MergeInit /\ [][MergeNext]_vars

\* ------------------------------------------------------------- claims
\* rect.xMm * pxPerMmX: a returned millimetre value back in pixels, as the
\* callers compute it
ToPx(valueMm, perMm) ==
  IF valueMm.den = perMm.num
    THEN valueMm.num \div perMm.den      \* the common factor is cancelled
    ELSE (valueMm.num * perMm.num) \div (valueMm.den * perMm.den)

PxRect(s) ==
  [x |-> ToPx(s.xMm, pxPerMmX), y |-> ToPx(s.yMm, pxPerMmY),
   w |-> ToPx(s.widthMm, pxPerMmX), h |-> ToPx(s.heightMm, pxPerMmY)]

Indices == 1..Len(suggestions)

\* the boxes of a and b, each grown by the gap on every side, share a cell
ExpandedOverlap(a, b) ==
  /\ a.x - gapPxX < b.x + b.w + gapPxX
  /\ b.x - gapPxX < a.x + a.w + gapPxX
  /\ a.y - gapPxY < b.y + b.h + gapPxY
  /\ b.y - gapPxY < a.y + a.h + gapPxY

\* a stride-aligned anchor whose cell is still free in available
FreeAnchorLeft ==
  \E ax \in 0..(maskWidth - 1), ay \in 0..(maskHeight - 1) :
    /\ ax % stepPxX = 0 /\ ay % stepPxY = 0
    /\ available[ay * maskWidth + ax] # 0

\* C1: at every moment of a scan, the gap-expanded pixel rectangles of any
\* two distinct suggestions share no cell.
C1_NoExpandedOverlap ==
  [](\A j \in Indices :
       \A b \in {PxRect(suggestions[j])}, gx \in {gapPxX}, gy \in {gapPxY} :
         \A i \in 1..(j - 1) : \A a \in {PxRect(suggestions[i])} :
           ~(/\ a.x - gx < b.x + b.w + gx /\ b.x - gx < a.x + a.w + gx
             /\ a.y - gy < b.y + b.h + gy /\ b.y - gy < a.y + a.h + gy))

C1_Witness ==
  /\ pc = "done"
  /\ Len(suggestions) >= 2
  /\ gapPxX >= 1 /\ gapPxY >= 1

\* C2: the share of cells of a suggestion's exact pixel rectangle whose mask
\* value exceeds 200 is at least coverageThreshold.
C2_PurityAtLeastThreshold ==
  [](\A i \in Indices : \A r \in {PxRect(suggestions[i])} :
       /\ r.w >= 1 /\ r.h >= 1
       /\ \A white \in {Cardinality({c \in (r.x..(r.x + r.w - 1)) \X (r.y..(r.y + r.h - 1)) :
                                        /\ c[1] < maskWidth /\ c[2] < maskHeight
                                        /\ mask[c[2] * maskWidth + c[1] + 1] > 200})} :
            white * coverageThreshold.den >= coverageThreshold.num * (r.w * r.h))

C2_Witness ==
  /\ pc = "done"
  /\ Len(suggestions) >= 1
  /\ coverageThreshold.num > 0
  /\ \E i \in DOMAIN mask : mask[i] <= 200

\* C3: every suggestion lies inside the sheet, in millimetres.
C3_InsideSheet ==
  [](\A i \in Indices : \A s \in {suggestions[i]} :
       /\ s.xMm.num >= 0 /\ s.yMm.num >= 0
       /\ s.xMm.den > 0 /\ s.yMm.den > 0 /\ s.widthMm.den > 0 /\ s.heightMm.den > 0
       /\ s.xMm.num * s.widthMm.den + s.widthMm.num * s.xMm.den
            <= widthMm * s.xMm.den * s.widthMm.den
       /\ s.yMm.num * s.heightMm.den + s.heightMm.num * s.yMm.den
            <= heightMm * s.yMm.den * s.heightMm.den)

C3_Witness ==
  /\ pc = "done"
  /\ \E i \in Indices :
       LET s == suggestions[i]
       IN  /\ s.xMm.num > 0
           /\ s.xMm.num * s.widthMm.den + s.widthMm.num * s.xMm.den
                = widthMm * s.xMm.den * s.widthMm.den
           /\ s.yMm.num * s.heightMm.den + s.heightMm.num * s.yMm.den
                = heightMm * s.yMm.den * s.heightMm.den

\* C4: with maxShapes >= 1 the count never exceeds maxShapes, and an anchor
\* is examined only while the count is below maxShapes.
C4_CapRespected ==
  [][maxShapes >= 1 =>
       /\ Len(suggestions') <= maxShapes
       /\ (anchorsExamined' > anchorsExamined => Len(suggestions) < maxShapes)]_vars

C4_Witness ==
  /\ pc = "done"
  /\ maxShapes >= 1
  /\ Len(suggestions) = maxShapes
  /\ FreeAnchorLeft

\* the anchor of a comes before the anchor of b in scan order
AnchorBefore(a, b) == a.y < b.y \/ (a.y = b.y /\ a.x < b.x)

\* C5: during a call the sequence only grows at its end, and the anchors of
\* consecutive suggestions strictly increase in (y, x) order.
C5_DiscoveryOrder ==
  [][/\ \A i \in 1..(Len(suggestions') - 1) :
          AnchorBefore(PxRect(suggestions'[i]), PxRect(suggestions'[i + 1]))
     /\ (callNo' = callNo /\ pc # "idle" =>
           /\ Len(suggestions') >= Len(suggestions)
           /\ SubSeq(suggestions', 1, Len(suggestions)) = suggestions)]_vars

C5_Witness ==
  /\ pc = "done"
  /\ Len(suggestions) >= 3
  /\ PxRect(suggestions[1]).y = PxRect(suggestions[2]).y
  /\ PxRect(suggestions[2]).y < PxRect(suggestions[3]).y

\* C6: a second call with the same arguments that, like the first, was not
\* cancelled returns the same sequence as the first.
C6_Deterministic ==
  (/\ callNo = 2 /\ pc = "done" /\ ~abortSeen
   /\ firstResult[1].outcome = "done"
   /\ firstResult[1].options = options)
    => suggestions = firstResult[1].suggestions

C6_Witness ==
  /\ callNo = 2 /\ pc = "done" /\ ~abortSeen
  /\ firstResult[1].outcome = "done"
  /\ firstResult[1].options = options
  /\ Len(suggestions) >= 2
  /\ abortFlag

\* C7: a free cell of available is free in original; a used cell of
\* available stays used during a call; marking a rectangle twice gives the
\* grid that marking it once gives.
C7_AvailableWithinOriginal ==
  [][available' # NoGrid =>
       /\ \A i \in DOMAIN available' : available'[i] # 0 => original'[i] # 0
       /\ (available # NoGrid /\ callNo' = callNo /\ pc # "idle" =>
             \A i \in DOMAIN available : available[i] = 0 => available'[i] = 0)
       /\ (Len(suggestions') > Len(suggestions) =>
             LET r == PxRect(suggestions'[Len(suggestions')])
             IN  markUsed(available', r.x, r.y, r.w, r.h) = available')]_vars

C7_Witness ==
  /\ pc = "done"
  /\ Len(suggestions) >= 1
  /\ \E i \in DOMAIN available : available[i] = 0 /\ original[i] # 0
  /\ \E i \in DOMAIN available : available[i] # 0

ScanRow(s) == PxRect(s).y \div stepPxY

\* C9: while the flag is true no suggestion is added, and every suggestion
\* present has its anchor in one of the processedRows rows begun before.
C9_NoLaterRows ==
  [][(shouldAbort # "none" /\ abortFlag' /\ callNo' = callNo
      /\ pc # "idle" /\ pc' \notin {"idle", "failed"}) =>
       /\ suggestions' = suggestions
       /\ \A i \in 1..Len(suggestions') : ScanRow(suggestions'[i]) < processedRows']_vars

C9_Witness ==
  /\ pc = "done"
  /\ abortSeen /\ abortFlag
  /\ processedRows = 2
  /\ Len(suggestions) >= 1
  /\ FreeAnchorLeft

\* C10: a call whose mask length or sheet size is invalid never reports
\* progress, never polls, produces nothing and leaves the mask alone.
C10_InvalidInputFails ==
  [][(Len(mask) # maskWidth * maskHeight \/ widthMm <= 0 \/ heightMm <= 0) =>
       /\ pc' \in {"idle", "failed"}
       /\ progressCalls' = 0 /\ pollCount' = 0 /\ anchorsExamined' = 0
       /\ suggestions' = <<>>
       /\ mask' = mask]_vars

C10_Witness ==
  /\ pc = "failed"
  /\ Len(mask) # maskWidth * maskHeight

\* C11: an onProgress that throws, or whose promise rejects, never makes the
\* call fail, and the call returns what it returns with an onProgress that
\* does not fail.
C11_ProgressFailureSuppressed ==
  /\ (ProgressFails /\ pc = "failed") =>
       (Len(mask) # maskWidth * maskHeight \/ widthMm <= 0 \/ heightMm <= 0)
  /\ (/\ callNo = 2 /\ pc = "done" /\ ~abortSeen
      /\ firstResult[1].outcome = "done"
      /\ firstResult[1].options.onProgress \in {"throws", "rejects"}
      /\ options = [firstResult[1].options EXCEPT !.onProgress = "sync"])
       => suggestions = firstResult[1].suggestions

C11_Witness ==
  /\ callNo = 2 /\ pc = "done" /\ ~abortSeen
  /\ firstResult[1].outcome = "done"
  /\ firstResult[1].options.onProgress = "rejects"
  /\ options.onProgress = "sync"
  /\ Len(suggestions) >= 2
  /\ progressCalls >= 3

\* C12: once the set-up of a valid call is done the scan reaches its end and
\* the call resolves; the call fails only in its validation.
C12_ScanTerminates ==
  /\ (pc = "awaitInitial") ~> (pc = "done")
  /\ [][(pc' = "failed" /\ pc # "failed") => pc = "idle"]_vars

C12_Witness ==
  /\ pc = "done"
  /\ processedRows >= 2
  /\ Len(suggestions) >= 2
  /\ ProgressPending
  /\ yieldAfterRows > 0

\* C13: when a call that was given an onRectangleAdded callback resolves,
\* the rectangles the callback received are the returned ones, in order.
C13_AddedEqualsResult ==
  (pc = "done" /\ options.onRectangleAdded # "none")
    => RectanglesAdded(suggestions) = suggestions

\* the suggestion s covers the cell (cx, cy)
Covers(s, cx, cy) ==
  LET r == PxRect(s)
  IN  /\ r.x <= cx /\ cx < r.x + r.w
      /\ r.y <= cy /\ cy < r.y + r.h

\* C14: in Scenario A the first suggestion is 20 mm x 20 mm at the origin,
\* and the result of a scan that ran to its end covers every cell of the mask
\* exactly once.
C14_ScenarioATiles ==
  /\ Len(suggestions) >= 1 =>
       LET s == suggestions[1]
       IN  /\ s.xMm.num = 0 /\ s.yMm.num = 0
           /\ s.widthMm.num = Mm(20) * s.widthMm.den
           /\ s.heightMm.num = Mm(20) * s.heightMm.den
  /\ (pc = "done" /\ ~abortSeen) =>
       \A cx \in 0..(maskWidth - 1), cy \in 0..(maskHeight - 1) :
         Cardinality({i \in Indices : Covers(suggestions[i], cx, cy)}) = 1

C14_Witness ==
  /\ pc = "done" /\ ~abortSeen
  /\ maskWidth = 100 /\ maskHeight = 100
  /\ Len(suggestions) = 9

\* the columns of the mask all of whose cells are occupied
StripeColumns ==
  {c \in 0..(maskWidth - 1) :
     \A r \in 0..(maskHeight - 1) : mask[r * maskWidth + c + 1] <= Threshold}

\* C15: no suggestion contains a cell of a fully occupied column: each lies
\* wholly to the left or wholly to the right of it.
C15_NoStripeCrossing ==
  Len(mask) = maskWidth * maskHeight =>
    \A i \in Indices : \A c \in StripeColumns :
      PxRect(suggestions[i]).x + PxRect(suggestions[i]).w <= c
        \/ PxRect(suggestions[i]).x > c

C15_Witness ==
  /\ pc = "done"
  /\ Len(mask) = maskWidth * maskHeight
  /\ \E c \in StripeColumns :
       /\ \E i \in Indices : PxRect(suggestions[i]).x + PxRect(suggestions[i]).w <= c
       /\ \E j \in Indices : PxRect(suggestions[j]).x > c

\* C16: the result of a scan with the cap k >= 1 is the first min(k, n)
\* suggestions of the result of the same scan with the cap left out.
C16_CapIsPrefix ==
  (/\ callNo = 2 /\ pc = "done" /\ ~abortSeen
   /\ firstResult[1].outcome = "done"
   /\ firstResult[1].options.maxShapes # <<>>
   /\ options = [firstResult[1].options EXCEPT !.maxShapes = <<>>])
    => LET k == firstResult[1].options.maxShapes[1]
       IN  k >= 1 =>
             firstResult[1].suggestions
               = SubSeq(suggestions, 1, Min2(k, Len(suggestions)))

C16_Witness ==
  /\ callNo = 2 /\ pc = "done" /\ ~abortSeen
  /\ firstResult[1].outcome = "done"
  /\ firstResult[1].options.maxShapes = <<1>>
  /\ options.maxShapes = <<>>
  /\ Len(firstResult[1].suggestions) = 1
  /\ Len(suggestions) >= 3

\* C17: with gapMm > 0, two suggestions of one scan row are at least gapMm
\* apart: the left edge of the right one minus the right edge of the left one,
\* in millimetres.
C17_SameRowGap ==
  gapMm > 0 =>
    \A i \in Indices : \A j \in Indices :
      LET a == PxRect(suggestions[i])
          b == PxRect(suggestions[j])
      IN  (a.y = b.y /\ a.x < b.x) =>
            (b.x - (a.x + a.w)) * widthMm >= gapMm * maskWidth

\* C18 as stated: a poll is never made in the middle of a row.
C18_NeverMidRow ==
  [][pollCount' > pollCount => ~(pc = "col" /\ x > 0)]_vars

\* C18: shouldAbort is polled once at the start of a row, once before each
\* anchor column and once after the progress report and yield that end a
\* row; however many candidate sizes are tried at an anchor, no poll is made
\* between them.
C18_PollPoints ==
  [][pollCount' > pollCount =>
       /\ pollCount' = pollCount + 1
       /\ pc \in {"rowHead", "col", "rowPoll"}]_vars

C18_Witness ==
  /\ pc = "col" /\ x > 0
  /\ options.shouldAbort # "none"
  /\ anchorsExamined >= 2
  /\ pollCount >= 3
  /\ \E i \in Indices :
       PxRect(suggestions[i]).w # widthPxOf(sizePairs[1])
         \/ PxRect(suggestions[i]).h # heightPxOf(sizePairs[1])

\* C19: with the options of handleAutoFillRectangles, every rectangle
\* measures at most 100 mm x 50 mm, in one orientation or the other.
C19_AtMost100By50 ==
  (options.maxWidthMm = Mm(100) /\ options.maxHeightMm = Mm(50)) =>
    \A i \in Indices :
      LET s == suggestions[i]
      IN  \/ /\ s.widthMm.num <= Mm(100) * s.widthMm.den
             /\ s.heightMm.num <= Mm(50) * s.heightMm.den
          \/ /\ s.widthMm.num <= Mm(50) * s.widthMm.den
             /\ s.heightMm.num <= Mm(100) * s.heightMm.den

\* C20: a run of handleAutoFillRectangles (synchronous progress setter,
\* shouldAbort reading the flag) during which handleStopAutoFill was called,
\* and whose call resolved, ends with the cancelled message and with
\* autoFilling false.
C20_StopEndsCancelled ==
  [][(/\ hookPc = "engine" /\ hookPc' = "settled" /\ pc = "done" /\ stopCalled
      /\ options.onProgress = "sync" /\ options.shouldAbort = "flag") =>
       (shapeMessage' = "cancelled" /\ ~autoFilling')]_vars

\* the three tests of a candidate at an anchor, on the grids as they are:
\* (a) the rectangle fits the mask, (b) every cell of its gap-expanded box
\* that lies in the mask is free in available, (c) its purity reaches the
\* threshold
PassesAt(ax, ay, pair) ==
  LET w == widthPxOf(pair)
      h == heightPxOf(pair)
      boxCols == Max2(0, ax - gapPxX)..Min2(maskWidth - 1, ax + w + gapPxX - 1)
      boxRows == Max2(0, ay - gapPxY)..Min2(maskHeight - 1, ay + h + gapPxY - 1)
      white   == {c \in (ax..(ax + w - 1)) \X (ay..(ay + h - 1)) :
                    original[c[2] * maskWidth + c[1]] # 0}
  IN  /\ ax + w <= maskWidth /\ ay + h <= maskHeight
      /\ \A cx \in boxCols : \A cy \in boxRows : available[cy * maskWidth + cx] # 0
      /\ Cardinality(white) * coverageThreshold.den >= coverageThreshold.num * (w * h)

\* C21: a suggestion accepted at an anchor has the size of the first
\* candidate of the area-descending list that passes the three tests there;
\* no earlier candidate passes them.
C21_GreedyLargestFirst ==
  [][Len(suggestions') = Len(suggestions) + 1 =>
       LET passing == {k \in 1..Len(sizePairs) : PassesAt(x, y, sizePairs[k])}
       IN  /\ passing # {}
           /\ \E k \in passing :
                /\ \A o \in passing : k <= o
                /\ suggestions'[Len(suggestions')] = Suggestion(x, y, sizePairs[k])]_vars

C21_Witness ==
  /\ pc = "col"
  /\ Len(suggestions) >= 2
  /\ Len(sizePairs) >= 3
  /\ LET r == PxRect(suggestions[Len(suggestions)])
     IN  /\ r.w * r.h < widthPxOf(sizePairs[1]) * heightPxOf(sizePairs[1])
         /\ r.w * r.h > widthPxOf(sizePairs[Len(sizePairs)])
                          * heightPxOf(sizePairs[Len(sizePairs)])

\* C22: after a scan that went through the whole grid (not stopped by the
\* cap, not cancelled) no candidate passes the three tests at any
\* stride-aligned anchor.
C22_MaximalAtAnchors ==
  []((pc = "done" /\ ~abortSeen /\ Len(suggestions) < maxShapes) =>
       \A ax \in 0..(maskWidth - 1), ay \in 0..(maskHeight - 1) :
         (ax % stepPxX = 0 /\ ay % stepPxY = 0) =>
           \A k \in 1..Len(sizePairs) : ~PassesAt(ax, ay, sizePairs[k]))

C22_Witness ==
  /\ pc = "done" /\ ~abortSeen
  /\ Len(suggestions) < maxShapes
  /\ Len(suggestions) >= 2
  /\ FreeAnchorLeft

\* a direct call with max >= min and step > 0 has returned
RangeReturned ==
  /\ rangeResult # <<>>
  /\ rangeArgs[1] >= rangeArgs[2]
  /\ rangeArgs[3] > 0

StrictlyDescending(r) == \A i \in 1..(Len(r) - 1) : r[i] > r[i + 1]

\* C23 as stated: the sequence is strictly descending from max itself to min
\* itself, min occurs exactly once, and every element but the last is max
\* minus a whole number of steps.
C23_RangeAsStated ==
  RangeReturned =>
    LET r    == rangeResult[1]
        max  == rangeArgs[1]
        min  == rangeArgs[2]
        step == rangeArgs[3]
    IN  /\ StrictlyDescending(r)
        /\ r[1] = max /\ r[Len(r)] = min
        /\ Cardinality({i \in 1..Len(r) : r[i] = min}) = 1
        /\ \A i \in 1..(Len(r) - 1) :
             \E k \in 0..((max - min) \div step) : r[i] = max - k * step

\* C23: the sequence is strictly descending from max to min, both rounded to
\* four decimals; the rounded min occurs exactly once, and every element but
\* the last is max minus a whole number of steps, rounded to four decimals.
C23_RangeRounded ==
  RangeReturned =>
    LET r    == rangeResult[1]
        max  == rangeArgs[1]
        min  == rangeArgs[2]
        step == rangeArgs[3]
    IN  /\ StrictlyDescending(r)
        /\ r[1] = ToFixed4(max) /\ r[Len(r)] = ToFixed4(min)
        /\ Cardinality({i \in 1..Len(r) : r[i] = ToFixed4(min)}) = 1
        /\ \A i \in 1..(Len(r) - 1) :
             \E k \in 0..((max - min) \div step) : r[i] = ToFixed4(max - k * step)

C23_Witness ==
  /\ RangeReturned
  /\ Len(rangeResult[1]) >= 3
  /\ (rangeArgs[1] - rangeArgs[2]) % rangeArgs[3] # 0
  /\ rangeResult[1][1] # rangeArgs[1]

\* C24: the candidate list of a scan holds no (widthMm, heightMm) pair twice
\* and is ordered by non-increasing area. The list is built once, before the
\* first row of the call, and is looked at there.
C24_CandidateList ==
  (sizePairs # <<>> /\ processedRows = 0) =>
  \A i \in 1..Len(sizePairs) : \A j \in 1..Len(sizePairs) :
    i < j =>
      /\ sizePairs[i] # sizePairs[j]
      /\ LET a == Product(sizePairs[i].widthMm, sizePairs[i].heightMm)
             b == Product(sizePairs[j].widthMm, sizePairs[j].heightMm)
         IN  a[1] > b[1] \/ (a[1] = b[1] /\ a[2] >= b[2])

C24_Witness ==
  /\ pc = "awaitInitial"
  /\ orientation = "both"
  /\ Len(widthCandidates) >= 2
  /\ widthCandidates = heightCandidates
  /\ Len(sizePairs) = Len(widthCandidates) * Len(heightCandidates)
  /\ sizePairs[1].widthMm > sizePairs[Len(sizePairs)].widthMm

\* the pairs the orientation asks for, from the width and height sequences
ExpectedPairs ==
  LET W == SeqRange(widthCandidates)
      H == SeqRange(heightCandidates)
      landscape == {[widthMm |-> w, heightMm |-> h] : w \in W, h \in H}
      portrait  == {[widthMm |-> h, heightMm |-> w] : w \in W, h \in H}
  IN  IF orientation = "landscape" THEN landscape
      ELSE IF orientation = "portrait" THEN portrait
      ELSE landscape \cup portrait

\* C25 as stated: the candidate set is exactly the set of pairs the
\* orientation asks for.
C25_ExactPairs ==
  sizePairs # <<>> => SeqRange(sizePairs) = ExpectedPairs

\* C25: every candidate is a pair the orientation asks for, and every pair
\* it asks for is a candidate or equals one when both are rounded to three
\* decimals. The list is built once, before the first row of the call, and
\* is looked at there.
C25_PairsUpToKey ==
  (sizePairs # <<>> /\ processedRows = 0) =>
    /\ SeqRange(sizePairs) \subseteq ExpectedPairs
    /\ \A p \in ExpectedPairs : \E q \in SeqRange(sizePairs) : PairKey(q) = PairKey(p)

C25_Witness ==
  /\ pc = "done"
  /\ orientation = "landscape"
  /\ Len(suggestions) >= 2
  /\ Cardinality(SeqRange(sizePairs)) < Cardinality(ExpectedPairs)

\* C26 as stated: with a step <= 0 the values of each axis are just max and
\* min, for a direct call and for a scan whose stepMm is <= 0.
C26_DegenerateStep ==
  /\ (rangeResult # <<>> /\ rangeArgs[3] <= 0) =>
       SeqRange(rangeResult[1]) = {rangeArgs[1], rangeArgs[2]}
  /\ (sizePairs # <<>> /\ options.stepMm # <<>> /\ options.stepMm[1] <= 0) =>
       /\ SeqRange(widthCandidates) = {maxWidthMm, minWidthMm}
       /\ SeqRange(heightCandidates) = {maxHeightMm, minHeightMm}

\* the values a step of 0.2 mm gives between max and min
FifthSteps(max, min) ==
  {ToFixed4(max - k * Tenths(2)) : k \in 0..((max - min) \div Tenths(2))}
    \cup {ToFixed4(min)}

\* C26: a direct call with a step <= 0 returns max and min, largest first
\* (one value when they are equal); a scan whose stepMm is <= 0 steps by
\* 0.2 mm instead.
C26_DegenerateDirectOnly ==
  /\ (rangeResult # <<>> /\ rangeArgs[3] <= 0) =>
       /\ SeqRange(rangeResult[1]) = {rangeArgs[1], rangeArgs[2]}
       /\ StrictlyDescending(rangeResult[1])
  /\ (sizePairs # <<>> /\ options.stepMm # <<>> /\ options.stepMm[1] <= 0) =>
       /\ maxWidthMm >= minWidthMm =>
            SeqRange(widthCandidates) = FifthSteps(maxWidthMm, minWidthMm)
       /\ maxHeightMm >= minHeightMm =>
            SeqRange(heightCandidates) = FifthSteps(maxHeightMm, minHeightMm)

C26_Witness ==
  /\ pc = "done"
  /\ options.stepMm = <<0>>
  /\ Len(widthCandidates) = 3
  /\ Len(suggestions) >= 1
  /\ rangeResult # <<>>
  /\ rangeArgs = <<maxWidthMm, minWidthMm, 0>>
  /\ Len(rangeResult[1]) = 2

\* C27: every snapshot handed to onProgress has 0 <= progress <= 1 and
\* 0 <= processedRows <= totalRows, with totalRows = max(1,
\* ceil(maskHeight / stepPxY)): the forced first and last ones, the ones after
\* a row, and the ones of a cancelled scan.
C27_SnapshotBounds ==
  [][progressCalls' > progressCalls =>
       /\ payload'.progress.num >= 0
       /\ payload'.progress.den > 0
       /\ payload'.progress.num <= payload'.progress.den
       /\ payload'.processedRows >= 0
       /\ payload'.processedRows <= payload'.totalRows
       /\ payload'.totalRows * stepPxY >= maskHeight
       /\ payload'.totalRows >= 1
       /\ (payload'.totalRows > 1 => (payload'.totalRows - 1) * stepPxY < maskHeight)]_vars

C27_Witness ==
  /\ pc = "done" /\ abortSeen
  /\ progressCalls >= 3
  /\ processedRows >= 1
  /\ processedRows < totalRows
  /\ stepPxY >= 2

\* a step of one call of the function
SameCall == callNo' = callNo /\ pc' # "idle"

\* the schedule of onProgress: one call before the first row, one after a row
\* exactly when processedRows is a multiple of progressIntervalRows, one after
\* the loop; while the value awaited after a row is pending the scan stands
\* still
ProgressSchedule ==
  /\ SameCall =>
       /\ progressCalls' - progressCalls \in {0, 1}
       /\ progressCalls' = progressCalls + 1 <=>
            /\ onProgress # "none"
            /\ \/ pc = "idle" /\ pc' = "awaitInitial"
               \/ /\ pc = "col" /\ pc' = "awaitRow"
                  /\ processedRows % progressIntervalRows = 0
               \/ pc = "finish" /\ pc' = "awaitFinal"
  /\ (pc = "awaitInitial" /\ pc' = "rowHead") =>
       /\ progressCalls = Bump(onProgress # "none")
       /\ processedRows = 0
  /\ pc = "awaitRow" =>
       /\ pc' \in {"awaitRow", "yield", "rowPoll"}
       /\ <<x, y, suggestions, available, processedRows, pollCount>>'
            = <<x, y, suggestions, available, processedRows, pollCount>>

\* C28 as stated: processedRows is incremented only after the inner loop of
\* a row has finished, and onProgress follows the schedule.
C28_CountedAfterRow ==
  [][/\ (SameCall /\ processedRows' > processedRows) => (pc = "col" /\ ~InnerLoopTest)
     /\ ProgressSchedule]_vars

\* C28: processedRows is incremented by one when a row is started, before
\* its inner loop, and onProgress follows the schedule.
C28_CountedAtRowStart ==
  [][/\ (SameCall /\ processedRows' > processedRows) =>
          /\ processedRows' = processedRows + 1
          /\ pc = "rowHead" /\ pc' = "col" /\ x' = 0
          /\ anchorsExamined' = anchorsExamined
     /\ ProgressSchedule]_vars

C28_Witness ==
  /\ pc = "done" /\ ~abortSeen
  /\ Nullish(options.progressIntervalRows, 5) = 2
  /\ processedRows = 3
  /\ progressCalls = 3

\* the scan is at one of its awaits
AtAwait == pc \in {"awaitInitial", "awaitRow", "yield", "awaitFinal"}

\* C29: the scan yields after a row exactly when yieldAfterRows > 0 and
\* processedRows is a multiple of it, and never with yieldAfterRows = 0; while
\* a scan runs the abort flag changes only at the yield or at the await of the
\* progress callback, so never in a step that polls it.
C29_YieldSchedule ==
  [][/\ (pc = "awaitRow" /\ pc' # "awaitRow") =>
          (pc' = "yield" <=>
             (yieldAfterRows > 0 /\ processedRows % yieldAfterRows = 0))
     /\ (pc' = "yield" /\ pc # "yield") => pc = "awaitRow"
     /\ (Nullish(options.yieldAfterRows, 20) <= 0) => pc' # "yield"
     /\ (hookPc = "engine" /\ hookPc' = "engine" /\ abortFlag' # abortFlag) => AtAwait
     /\ pollCount' > pollCount => abortFlag' = abortFlag]_vars

C29_Witness ==
  /\ pc = "yield"
  /\ Nullish(options.yieldAfterRows, 20) = 2
  /\ processedRows = 2
  /\ abortFlag /\ stopCalled

\* C30: no step writes the caller's mask; original does not change during a
\* call; every call that passes validation starts from grids computed from the
\* mask alone and from an empty result, whatever the call before left behind.
C30_FreshPerCall ==
  [][/\ mask' = mask
     /\ (SameCall /\ original # NoGrid) => original' = original
     /\ (pc = "idle" /\ pc' \notin {"idle", "failed"}) =>
          /\ DOMAIN available' = 0..(maskWidth * maskHeight - 1)
          /\ \A i \in DOMAIN available' :
               /\ available'[i] = IF mask[i + 1] > 200 THEN 1 ELSE 0
               /\ original'[i] = available'[i]
          /\ suggestions' = <<>> /\ processedRows' = 0
          /\ x' = 0 /\ y' = 0]_vars

C30_Witness ==
  /\ callNo = 2 /\ pc = "done" /\ ~abortSeen
  /\ firstResult[1].outcome = "cancelled"
  /\ Len(suggestions) >= 2
  /\ \E i \in DOMAIN mask : mask[i] <= 200
  /\ \E i \in DOMAIN available : available[i] # original[i]

\* the two options differ in coverageThreshold and in nothing else
OnlyThresholdDiffers(a, b) ==
  /\ a.coverageThreshold # b.coverageThreshold
  /\ [a EXCEPT !.coverageThreshold = <<>>] = [b EXCEPT !.coverageThreshold = <<>>]

\* C34: every cell of a suggestion's exact pixel rectangle has a mask value
\* above 200 (purity exactly 1), and a second call that differs from the first
\* in coverageThreshold alone, neither being cancelled, returns the sequence
\* the first returned.
C34_ThresholdIrrelevant ==
  [](/\ \A i \in Indices : \A r \in {PxRect(suggestions[i])} :
          \A c \in (r.x..(r.x + r.w - 1)) \X (r.y..(r.y + r.h - 1)) :
            mask[c[2] * maskWidth + c[1] + 1] > 200
     /\ (/\ callNo = 2 /\ pc = "done" /\ ~abortSeen
         /\ firstResult[1].outcome = "done"
         /\ OnlyThresholdDiffers(firstResult[1].options, options))
          => suggestions = firstResult[1].suggestions)

C34_Witness ==
  /\ callNo = 2 /\ pc = "done" /\ ~abortSeen
  /\ firstResult[1].outcome = "done"
  /\ OnlyThresholdDiffers(firstResult[1].options, options)
  /\ firstResult[1].options.coverageThreshold = <<[num |-> 0, den |-> 1]>>
  /\ Len(suggestions) >= 2
  /\ \E i \in DOMAIN mask : mask[i] <= 200

\* C35: every cell of the mask that lies in the gap-expanded box of a
\* suggestion has a mask value above 200; on a mask that is free everywhere
\* the first suggestion is anchored at the corner (0, 0), whatever the gap.
C35_ClearanceFromObstacles ==
  [](/\ \A i \in Indices :
          \A r \in {PxRect(suggestions[i])}, gx \in {gapPxX}, gy \in {gapPxY} :
            \A c \in (Max2(0, r.x - gx)..Min2(maskWidth - 1, r.x + r.w + gx - 1))
                      \X (Max2(0, r.y - gy)..Min2(maskHeight - 1, r.y + r.h + gy - 1)) :
              mask[c[2] * maskWidth + c[1] + 1] > 200
     /\ (Len(suggestions) >= 1 /\ \A i \in DOMAIN mask : mask[i] > 200) =>
          \A r \in {PxRect(suggestions[1])} : r.x = 0 /\ r.y = 0)

C35_Witness ==
  /\ pc = "done"
  /\ gapPxX >= 1 /\ gapPxY >= 1
  /\ \E i \in DOMAIN mask : mask[i] <= 200
  /\ \E i \in Indices :
       LET r == PxRect(suggestions[i])
       IN  /\ r.x = 0 /\ r.y = 0
           /\ \E xx \in 0..(maskWidth - 1), yy \in 0..(maskHeight - 1) :
                /\ mask[yy * maskWidth + xx + 1] <= 200
                /\ \/ xx = r.x + r.w + gapPxX /\ yy \in r.y..(r.y + r.h - 1)
                   \/ yy = r.y + r.h + gapPxY /\ xx \in r.x..(r.x + r.w - 1)

\* C36: during a call each payload handed to onProgress has at least the
\* processedRows and the suggestion count of the one before; the first has 0
\* rows and 0 suggestions; when the call returns, the last has the length of
\* the result as its suggestion count, and progress 1 if the outer loop ran to
\* the bottom of the grid.
C36_SnapshotsMonotone ==
  [][/\ (progressCalls' > progressCalls /\ progressCalls >= 1) =>
          /\ delivered'[1].processedRows >= delivered[1].processedRows
          /\ delivered'[1].suggestions >= delivered[1].suggestions
     /\ (progressCalls' > progressCalls /\ progressCalls = 0) =>
          /\ delivered'[1].processedRows = 0
          /\ delivered'[1].suggestions = 0
     /\ (pc # "done" /\ pc' = "done" /\ onProgress # "none") =>
          /\ delivered'[1].suggestions = Len(suggestions')
          /\ y' >= maskHeight =>
               delivered'[1].progress.num = delivered'[1].progress.den]_vars

C36_Witness ==
  /\ pc = "done"
  /\ y >= maskHeight
  /\ progressCalls = 3
  /\ progressIntervalRows = 2
  /\ delivered[1].processedRows = 3
  /\ delivered[1].suggestions >= 2
  /\ delivered[1].progress.num = delivered[1].progress.den

\* C39 as stated: every value buildDescendingRange(max, min, step) returns
\* for max >= 1 mm and min >= 1 mm lies between min and max, in a direct call
\* and in the width and height candidates of a scan.
C39_WithinBounds ==
  /\ (rangeResult # <<>> /\ rangeArgs[1] >= Mm(1) /\ rangeArgs[2] >= Mm(1)) =>
       \A i \in 1..Len(rangeResult[1]) :
         rangeArgs[2] <= rangeResult[1][i] /\ rangeResult[1][i] <= rangeArgs[1]
  /\ (sizePairs # <<>> /\ processedRows = 0) =>
       /\ \A i \in 1..Len(widthCandidates) :
            minWidthMm <= widthCandidates[i] /\ widthCandidates[i] <= maxWidthMm
       /\ \A i \in 1..Len(heightCandidates) :
            minHeightMm <= heightCandidates[i] /\ heightCandidates[i] <= maxHeightMm

\* C37: when the hook finishes a run with the abort flag set it does not call
\* onSvgUpdate and leaves the auto-fill shapes of the document as they are;
\* the document changes at no other moment of a run; whenever the hook
\* finishes, autoFilling is false and autoFillProgress is null.
C37_CancelledRunLeavesSvg ==
  [][/\ (hookPc = "engine" /\ hookPc' = "settled") =>
          /\ abortFlag => (svgUpdates' = svgUpdates /\ svgShapes' = svgShapes)
          /\ ~autoFilling'
          /\ autoFillProgress' = <<>>
     /\ (svgUpdates' # svgUpdates \/ svgShapes' # svgShapes) =>
          (hookPc = "engine" /\ hookPc' = "settled")]_vars

C37_Witness ==
  /\ callNo = 2 /\ hookPc = "settled"
  /\ abortFlag /\ shapeMessage = "cancelled"
  /\ Len(suggestions) >= 1
  /\ firstResult[1].outcome = "done"
  /\ svgUpdates = 1
  /\ Len(svgShapes) >= 2
  /\ svgShapes = firstResult[1].suggestions
  /\ svgShapes # suggestions

\* C38 as stated: from the start of a run of the hook to its end autoFilling
\* stays true, and the abort flag set by handleStopAutoFill stays set until a
\* poll of the scan has returned true.
C38_ExclusiveAndStopKept ==
  [][(hookPc \in {"timer", "engine"} /\ hookPc' \in {"timer", "engine"}) =>
       /\ autoFilling'
       /\ (stopCalled /\ abortFlag /\ ~abortSeen') => abortFlag']_vars

\* the continuation of the boundary-box hook ran to its end on a call that
\* was not cancelled and returned something
MergerFinished == mergePc = "done" /\ ~abortFlag /\ Len(returned) > 0

\* C31: outlines are merged only when the gap is exactly 0 and the corner
\* radius is 0: then no individually added rectangle stays in the document
\* and outline paths stand for the suggestions; in every other case each
\* suggestion stays in the document as a rectangle of its own and no path is
\* created
C31_MergeOnlyWhenSharp ==
  MergerFinished =>
    IF shapeGap = 0 /\ shapeCornerRadius = 0
      THEN /\ svgShapes = <<>>
           /\ Len(svgPaths) >= 1
           /\ svgPaths = mergedPaths
      ELSE /\ svgPaths = <<>>
           /\ mergedPaths = <<>>
           /\ svgShapes = returned

\* rectangles that share an edge up to the tolerance of the grouping, over a
\* span greater than it
SharesEdge(a, b) ==
  \/ /\ Abs(a.x + a.w - b.x) < groupTolerance \/ Abs(b.x + b.w - a.x) < groupTolerance
     /\ Min2(a.y + a.h, b.y + b.h) - Max2(a.y, b.y) > groupTolerance
  \/ /\ Abs(a.y + a.h - b.y) < groupTolerance \/ Abs(b.y + b.h - a.y) < groupTolerance
     /\ Min2(a.x + a.w, b.x + b.w) - Max2(a.x, b.x) > groupTolerance

\* a chain of rectangles of S leads from a to b, each sharing an edge with
\* the next (a rectangle may be repeated in the chain)
Linked(S, a, b) ==
  \E chain \in [1..Cardinality(S) -> S] :
    /\ chain[1] = a
    /\ chain[Cardinality(S)] = b
    /\ \A k \in 1..(Cardinality(S) - 1) :
         chain[k] = chain[k + 1] \/ SharesEdge(chain[k], chain[k + 1])

\* the classes of that relation: they depend on the set of rectangles only
Components(S) == {{b \in S : Linked(S, a, b)} : a \in S}

ClusterRects(c) == {rects[i] : i \in SeqRange(clusters[c])}

\* C32: when the grouping has ended, every rectangle is in exactly one
\* cluster, the clusters are the classes of the rectangles under "linked by
\* a chain of rectangles that share an edge", whatever the order of the
\* list, and one path element is created for each cluster
C32_ClustersAreComponents ==
  (MergerFinished /\ MergeWanted) =>
    /\ \A i \in 1..Len(rects) :
         Cardinality({c \in 1..Len(clusters) :
                        \E k \in 1..Len(clusters[c]) : clusters[c][k] = i}) = 1
    /\ \A c \in 1..Len(clusters) :
         Cardinality(SeqRange(clusters[c])) = Len(clusters[c])
    /\ {ClusterRects(c) : c \in 1..Len(clusters)} = Components(SeqRange(rects))
    /\ Len(clusters) = Cardinality(Components(SeqRange(rects)))
    /\ Len(svgPaths) = Len(clusters)
    /\ \A c \in 1..Len(clusters) :
         SeqRange(svgPaths[c]) \subseteq UNION {SeqRange(Corners(r)) : r \in ClusterRects(c)}

\* a chain A - B - C given in the order A, C, B: C joins the cluster only
\* after B has
C32_Witness ==
  /\ MergerFinished /\ MergeWanted
  /\ Len(rects) = 3
  /\ clusters = <<(<<1, 3, 2>>)>>
  /\ ~SharesEdge(rects[1], rects[2])
  /\ SharesEdge(rects[1], rects[3]) /\ SharesEdge(rects[3], rects[2])
  /\ Len(svgPaths) = 1

StrictlyInside(p, r) ==
  /\ r.x < p.x /\ p.x < r.x + r.w
  /\ r.y < p.y /\ p.y < r.y + r.h

\* the corners of the rectangles of a cluster that are not strictly inside
\* another of its rectangles
OutlineCorners(c) ==
  {p \in UNION {SeqRange(Corners(r)) : r \in ClusterRects(c)} :
     ~\E r \in ClusterRects(c) : StrictlyInside(p, r)}

====
